---- MODULE Spec2Model ----
(***************************************************************************)
(* A model of the XMind -> Markdown converter (paipeter0801/xmind-markdown). *)
(*                                                                         *)
(* Text is modelled as a sequence of characters (one-character strings).   *)
(* A few multi-character fragments that no operation of the program ever   *)
(* splits are carried as one symbol: an emoji is written as its code point *)
(* ("U+1F6A9"), the full-width colon as "U+FF1A".                          *)
(*                                                                         *)
(* A JavaScript value is a tagged record, so that Array.isArray, typeof,   *)
(* truthiness and property access behave as they do in the program.        *)
(***************************************************************************)
EXTENDS Integers, Sequences, FiniteSets, TLC

(***************************************************************************)
(* JavaScript values                                                        *)
(***************************************************************************)
Undef == [t |-> "undefined"]
JStr(s) == [t |-> "string", v |-> s]
JNum(n) == [t |-> "number", v |-> n]
JArr(a) == [t |-> "array", v |-> a]
JObj(f) == [t |-> "object", v |-> f]

\* the empty object {}
EmptyObj == JObj([k \in {} |-> Undef])

\* x[k] for a string key k: own properties of plain objects only
Get(x, k) == IF x.t = "object" /\ k \in DOMAIN x.v THEN x.v[k] ELSE Undef

\* ToBoolean(x)
Truthy(x) ==
  CASE x.t = "undefined" -> FALSE
    [] x.t = "string" -> x.v # <<>>
    [] x.t = "number" -> x.v # 0
    [] OTHER -> TRUE

IsArray(x) == x.t = "array"

\* a || b
Or(a, b) == IF Truthy(a) THEN a ELSE b

(***************************************************************************)
(* Strings                                                                  *)
(***************************************************************************)
Digits == <<"0", "1", "2", "3", "4", "5", "6", "7", "8", "9">>

IsSpace(c) == c \in {" ", "\n", "\t"}

IsDigit(c) == \E i \in 1..10 : Digits[i] = c

DigitVal(c) == (CHOOSE i \in 1..10 : Digits[i] = c) - 1

\* the positions of s, in order, that satisfy Test
Positions(s, Test(_)) == SelectSeq([i \in 1..Len(s) |-> i], Test)

TrimStart(s) ==
  LET kept == Positions(s, LAMBDA i : ~IsSpace(s[i]))
  IN IF kept = <<>> THEN <<>> ELSE SubSeq(s, kept[1], Len(s))

TrimEnd(s) ==
  LET kept == Positions(s, LAMBDA i : ~IsSpace(s[i]))
  IN IF kept = <<>> THEN <<>> ELSE SubSeq(s, 1, kept[Len(kept)])

\* String.prototype.trim
Trim(s) == TrimEnd(TrimStart(s))

\* s.replace(/\s+/g, ' '): each run of white space becomes one space
CollapseSpaces(s) ==
  LET kept == Positions(s, LAMBDA i : ~IsSpace(s[i]) \/ i = 1 \/ ~IsSpace(s[i - 1]))
  IN [j \in 1..Len(kept) |-> IF IsSpace(s[kept[j]]) THEN " " ELSE s[kept[j]]]

\* the concatenation of a sequence of sequences
RECURSIVE Flatten(_)
Flatten(ss) ==
  IF ss = <<>> THEN <<>>
  ELSE IF Len(ss) = 1 THEN ss[1]
  ELSE LET h == Len(ss) \div 2
       IN Flatten(SubSeq(ss, 1, h)) \o Flatten(SubSeq(ss, h + 1, Len(ss)))

\* s.replace(/</g, '&lt;').replace(/>/g, '&gt;')
EscapeAngles(s) ==
  Flatten([i \in 1..Len(s) |->
            CASE s[i] = "<" -> <<"&", "l", "t", ";">>
              [] s[i] = ">" -> <<"&", "g", "t", ";">>
              [] OTHER -> <<s[i]>>])

StartsWith(s, p) == Len(s) >= Len(p) /\ SubSeq(s, 1, Len(p)) = p

\* s.split(sep) for a one-character separator: always at least one piece
Split(s, sep) ==
  LET at == Positions(s, LAMBDA i : s[i] = sep)
      n == Len(at)
  IN [k \in 1..(n + 1) |->
       SubSeq(s, IF k = 1 THEN 1 ELSE at[k - 1] + 1, IF k = n + 1 THEN Len(s) ELSE at[k] - 1)]

\* parts.join(sep)
Join(parts, sep) ==
  Flatten([i \in 1..Len(parts) |-> IF i = 1 THEN parts[i] ELSE sep \o parts[i]])

RECURSIVE NatToStr(_)
NatToStr(n) ==
  IF n < 10 THEN <<Digits[n + 1]>>
  ELSE NatToStr(n \div 10) \o <<Digits[(n % 10) + 1]>>

RECURSIVE StrToNat(_)
StrToNat(s) ==
  IF s = <<>> THEN 0
  ELSE StrToNat(SubSeq(s, 1, Len(s) - 1)) * 10 + DigitVal(s[Len(s)])

\* String(x) for the values that reach it
ToStr(x) ==
  CASE x.t = "string" -> x.v
    [] x.t = "number" -> NatToStr(x.v)
    [] x.t = "undefined" -> <<"u", "n", "d", "e", "f", "i", "n", "e", "d">>
    [] OTHER -> <<"[", "o", "b", "j", "e", "c", "t", "]">>

(***************************************************************************)
(* XML documents and the XML Normalizer                                     *)
(*                                                                         *)
(* An element is [name, attrs, kids, text]; attrs maps attribute names to  *)
(* strings.  Normalize is what fast-xml-parser builds from an element      *)
(* under DEFAULT_PARSER_OPTIONS: attributes are kept under the '@_' prefix, *)
(* text is trimmed and parsed as a number when numeric, an element with    *)
(* neither attributes nor children is its text, and a child name is an     *)
(* array when it repeats or when isArray says so.                          *)
(***************************************************************************)
NoAttrs == [a \in {} |-> <<>>]

Elem(name, attrs, kids, text) ==
  [name |-> name, attrs |-> attrs, kids |-> kids, text |-> text]

\* DEFAULT_PARSER_OPTIONS of src/lib/parser.ts
DEFAULT_PARSER_OPTIONS ==
  [attributeNamePrefix |-> "@_",
   parseValues |-> TRUE,
   isArray |-> {"topic", "topics", "children", "marker-ref", "marker-refs",
                "attachment", "hyperlink", "label", "notes", "plain-text",
                "rich-content"}]

\* the XMLParser options of client-converter.ts
ClientParserOptions ==
  [attributeNamePrefix |-> "",
   parseValues |-> FALSE,
   isArray |-> {"topic", "topics", "children", "marker-ref", "marker-refs", "sheet",
                "attachment", "hyperlink", "label", "labels", "notes", "plain-text",
                "rich-content"}]

\* DEFAULT_PARSER_OPTIONS.isArray
isArray(name) == name \in DEFAULT_PARSER_OPTIONS.isArray

\* attributeNamePrefix + attribute name
AttrKey(a, prefix) ==
  IF prefix = "" THEN a
  ELSE CASE a = "id" -> "@_id"
         [] a = "href" -> "@_href"
         [] a = "marker-id" -> "@_marker-id"
         [] a = "src" -> "@_src"
         [] a = "type" -> "@_type"
         [] OTHER -> "@_other"

AttrOfKey(k, prefix) ==
  IF prefix = "" THEN k
  ELSE CASE k = "@_id" -> "id"
         [] k = "@_href" -> "href"
         [] k = "@_marker-id" -> "marker-id"
         [] k = "@_src" -> "src"
         [] k = "@_type" -> "type"
         [] OTHER -> "other"

\* parseTagValue / parseAttributeValue: a string of digits becomes a number
ParseValue(s) ==
  IF s # <<>> /\ \A i \in 1..Len(s) : IsDigit(s[i]) THEN JNum(StrToNat(s)) ELSE JStr(s)

ParseValueWith(s, cfg) == IF cfg.parseValues THEN ParseValue(s) ELSE JStr(s)

RECURSIVE NormalizeWith(_, _)
NormalizeWith(el, cfg) ==
  LET kidNames == {el.kids[i].name : i \in DOMAIN el.kids}
      attrKeys == {AttrKey(a, cfg.attributeNamePrefix) : a \in DOMAIN el.attrs}
      text == Trim(el.text)
      textKey == IF text # <<>> THEN {"#text"} ELSE {}
      Group(n) ==
        LET named == SelectSeq(el.kids, LAMBDA kid : kid.name = n)
            vals == [i \in DOMAIN named |-> NormalizeWith(named[i], cfg)]
        IN IF Len(vals) > 1 \/ n \in cfg.isArray THEN JArr(vals) ELSE vals[1]
  IN IF attrKeys = {} /\ kidNames = {}
     THEN (IF text = <<>> THEN JStr(<<>>) ELSE ParseValueWith(text, cfg))
     ELSE JObj([k \in kidNames \cup attrKeys \cup textKey |->
                 CASE k \in kidNames -> Group(k)
                   [] k \in attrKeys ->
                        ParseValueWith(el.attrs[AttrOfKey(k, cfg.attributeNamePrefix)], cfg)
                   [] OTHER -> ParseValueWith(text, cfg)])

Normalize(el) == NormalizeWith(el, DEFAULT_PARSER_OPTIONS)

\* XMLParser.parse of a well-formed document whose document element is root
ParseDocumentWith(root, cfg) ==
  JObj([k \in {root.name} |->
         IF root.name \in cfg.isArray THEN JArr(<<NormalizeWith(root, cfg)>>)
         ELSE NormalizeWith(root, cfg)])

ParseDocument(root) == ParseDocumentWith(root, DEFAULT_PARSER_OPTIONS)

(***************************************************************************)
(* XmindParser (src/lib/parser.ts): the Topic Tree Builder                  *)
(***************************************************************************)
DEFAULT_MARKERS ==
  {
    <<<<"p", "r", "i", "o", "r", "i", "t", "y", "-", "1">>, <<"U+1F534">>>>,
    <<<<"p", "r", "i", "o", "r", "i", "t", "y", "-", "2">>, <<"U+1F7E0">>>>,
    <<<<"p", "r", "i", "o", "r", "i", "t", "y", "-", "3">>, <<"U+1F7E1">>>>,
    <<<<"p", "r", "i", "o", "r", "i", "t", "y", "-", "4">>, <<"U+1F7E2">>>>,
    <<<<"p", "r", "i", "o", "r", "i", "t", "y", "-", "5">>, <<"U+1F535">>>>,
    <<<<"p", "r", "i", "o", "r", "i", "t", "y", "-", "6">>, <<"U+26AA">>>>,
    <<<<"t", "a", "s", "k", "-", "s", "t", "a", "r", "t">>, <<"U+25B6">>>>,
    <<<<"t", "a", "s", "k", "-", "h", "a", "l", "f">>, <<"U+25D0">>>>,
    <<<<"t", "a", "s", "k", "-", "d", "o", "n", "e">>, <<"U+25FC">>>>,
    <<<<"t", "a", "s", "k", "-", "o", "v", "e", "r", "t", "i", "m", "e">>, <<"U+23F0">>>>,
    <<<<"f", "l", "a", "g", "-", "r", "e", "d">>, <<"U+1F6A9">>>>,
    <<<<"f", "l", "a", "g", "-", "o", "r", "a", "n", "g", "e">>, <<"U+1F3F3">>>>,
    <<<<"f", "l", "a", "g", "-", "y", "e", "l", "l", "o", "w">>, <<"U+1F3F4">>>>,
    <<<<"s", "m", "i", "l", "e", "-", "l", "a", "u", "g", "h">>, <<"U+1F602">>>>,
    <<<<"s", "m", "i", "l", "e", "-", "t", "h", "i", "n", "k">>, <<"U+1F914">>>>,
    <<<<"s", "m", "i", "l", "e", "-", "a", "n", "g", "r", "y">>, <<"U+1F620">>>>,
    <<<<"s", "m", "i", "l", "e", "-", "c", "r", "y">>, <<"U+1F622">>>>,
    <<<<"s", "m", "i", "l", "e", "-", "c", "o", "o", "l">>, <<"U+1F60E">>>>,
    <<<<"s", "y", "m", "b", "o", "l", "-", "o", "k">>, <<"U+2713">>>>,
    <<<<"s", "y", "m", "b", "o", "l", "-", "w", "r", "o", "n", "g">>, <<"U+2717">>>>,
    <<<<"s", "y", "m", "b", "o", "l", "-", "q", "u", "e", "s", "t", "i", "o", "n">>, <<"?">>>>,
    <<<<"s", "y", "m", "b", "o", "l", "-", "w", "a", "i", "t">>, <<"U+231B">>>>,
    <<<<"s", "y", "m", "b", "o", "l", "-", "i", "d", "e", "a">>, <<"U+1F4A1">>>>,
    <<<<"s", "y", "m", "b", "o", "l", "-", "i", "m", "p", "o", "r", "t", "a", "n", "t">>, <<"U+2757">>>>,
    <<<<"s", "y", "m", "b", "o", "l", "-", "n", "o", "t", "e">>, <<"U+1F4DD">>>>,
    <<<<"a", "r", "r", "o", "w", "-", "u", "p">>, <<"U+2191">>>>,
    <<<<"a", "r", "r", "o", "w", "-", "d", "o", "w", "n">>, <<"U+2193">>>>,
    <<<<"a", "r", "r", "o", "w", "-", "l", "e", "f", "t">>, <<"U+2190">>>>,
    <<<<"a", "r", "r", "o", "w", "-", "r", "i", "g", "h", "t">>, <<"U+2192">>>>,
    <<<<"m", "o", "n", "t", "h", "-", "1">>, <<"U+1F4C5">>>>,
    <<<<"m", "o", "n", "t", "h", "-", "2">>, <<"U+1F4C5">>>>,
    <<<<"m", "o", "n", "t", "h", "-", "3">>, <<"U+1F4C5">>>>,
    <<<<"m", "o", "n", "t", "h", "-", "4">>, <<"U+1F4C5">>>>,
    <<<<"m", "o", "n", "t", "h", "-", "5">>, <<"U+1F4C5">>>>,
    <<<<"m", "o", "n", "t", "h", "-", "6">>, <<"U+1F4C5">>>>,
    <<<<"m", "o", "n", "t", "h", "-", "7">>, <<"U+1F4C5">>>>,
    <<<<"m", "o", "n", "t", "h", "-", "8">>, <<"U+1F4C5">>>>,
    <<<<"m", "o", "n", "t", "h", "-", "9">>, <<"U+1F4C5">>>>,
    <<<<"m", "o", "n", "t", "h", "-", "1", "0">>, <<"U+1F4C5">>>>,
    <<<<"m", "o", "n", "t", "h", "-", "1", "1">>, <<"U+1F4C5">>>>,
    <<<<"m", "o", "n", "t", "h", "-", "1", "2">>, <<"U+1F4C5">>>>,
    <<<<"w", "e", "e", "k", "-", "1">>, <<"U+1F4C6">>>>,
    <<<<"w", "e", "e", "k", "-", "2">>, <<"U+1F4C6">>>>,
    <<<<"w", "e", "e", "k", "-", "3">>, <<"U+1F4C6">>>>,
    <<<<"w", "e", "e", "k", "-", "4">>, <<"U+1F4C6">>>>
  }

\* two of the property names every object inherits from Object.prototype
Constructor == <<"c", "o", "n", "s", "t", "r", "u", "c", "t", "o", "r">>

ObjectPrototypeKeys == {Constructor, <<"t", "o", "S", "t", "r", "i", "n", "g">>}

\* the function found under an inherited name, written as the one symbol its
\* text is when it is joined into a string
Inherited(key) ==
  IF key = Constructor THEN <<"function Object() { [native code] }">>
  ELSE <<"function toString() { [native code] }">>

\* this.markerMap[markerId]: the symbol, the inherited function when the id
\* names one, or <<>> (undefined) when the lookup finds nothing
markerMap(markerId) ==
  IF \E e \in DEFAULT_MARKERS : e[1] = markerId
  THEN (CHOOSE e \in DEFAULT_MARKERS : e[1] = markerId)[2]
  ELSE IF markerId \in ObjectPrototypeKeys THEN Inherited(markerId)
  ELSE <<>>

\* Math.random().toString(36).substr(2, 9): the k-th draw of a run whose
\* random source is seeded with seed.  Distinct (seed, k) give distinct draws.
RandomSeeds == 0..1

RandomDraw(seed, k) == NatToStr(seed + 2 * k)

\* `topic-${Date.now()}-${Math.random().toString(36).substr(2, 9)}`
generateId(now, seed, k) ==
  JStr(<<"t", "o", "p", "i", "c", "-">> \o NatToStr(now) \o <<"-">> \o RandomDraw(seed, k))

UntitledTopic ==
  <<"U", "n", "t", "i", "t", "l", "e", "d", " ", "T", "o", "p", "i", "c">>

extractTitle(topic) ==
  IF Truthy(Get(topic, "title")) THEN Get(topic, "title")
  ELSE IF Truthy(Get(topic, "#text")) THEN JStr(ToStr(Get(topic, "#text")))
  ELSE JStr(UntitledTopic)

\* a builder that reads child topics only from a sequence
OnlyArray(x) == IF IsArray(x) THEN x.v ELSE <<>>

\* x when x is an array, [x] otherwise
AsArray(x) == IF IsArray(x) THEN x.v ELSE <<x>>

RECURSIVE ResolveMarkers(_)
ResolveMarkers(refs) ==
  IF refs = <<>> THEN <<>>
  ELSE LET markerId == Get(Head(refs), "@_marker-id")
           known == markerId.t = "string" /\ markerMap(markerId.v) # <<>>
       IN (IF Truthy(markerId) /\ known THEN <<markerMap(markerId.v)>>
           ELSE IF Truthy(markerId) THEN <<<<"[">> \o ToStr(markerId) \o <<"]">>>>
           ELSE <<>>) \o ResolveMarkers(Tail(refs))

extractMarkers(topic) ==
  LET refs == Get(Get(topic, "marker-refs"), "marker-ref")
  IN IF Truthy(refs) THEN ResolveMarkers(AsArray(refs)) ELSE <<>>

\* href.startsWith on a value that is not a string is a TypeError
HrefThrows(href) == Truthy(href) /\ href.t # "string"

LinksThrow(topic) == HrefThrows(Get(topic, "@_href"))

\* the links pushed for an href attribute
LinksOf(href) ==
  IF ~Truthy(href) \/ href.t # "string" THEN <<>>
  ELSE <<[href |-> href.v,
          type |-> IF StartsWith(href.v, <<"#">>) THEN "topic"
                   ELSE IF StartsWith(href.v, <<"f", "i", "l", "e", ":", "/", "/">>)
                           \/ StartsWith(href.v, <<".", "/">>) THEN "file"
                   ELSE "url"]>>

extractLinks(topic) == LinksOf(Get(topic, "@_href"))

extractNotes(topic) ==
  LET text == Get(Get(topic, "notes"), "plain-text")
  IN IF Truthy(text) THEN text ELSE Undef

RECURSIVE StringsOf(_)
StringsOf(a) ==
  IF a = <<>> THEN <<>>
  ELSE (IF Head(a).t = "string" THEN <<Head(a).v>> ELSE <<>>) \o StringsOf(Tail(a))

extractLabels(topic) ==
  LET label == Get(Get(topic, "labels"), "label")
  IN IF Truthy(label) THEN StringsOf(AsArray(label)) ELSE <<>>

\* s.split(sep).pop()
LastPiece(s, sep) == LET parts == Split(s, sep) IN parts[Len(parts)]

Lower(c) ==
  CASE c = "P" -> "p" [] c = "N" -> "n" [] c = "G" -> "g" [] OTHER -> c

getMimeTypeFromSrc(src) ==
  LET ext == [i \in 1..Len(LastPiece(src, ".")) |-> Lower(LastPiece(src, ".")[i])]
  IN CASE ext = <<"j", "p", "g">> -> "image/jpeg"
       [] ext = <<"j", "p", "e", "g">> -> "image/jpeg"
       [] ext = <<"p", "n", "g">> -> "image/png"
       [] ext = <<"g", "i", "f">> -> "image/gif"
       [] ext = <<"s", "v", "g">> -> "image/svg+xml"
       [] ext = <<"w", "e", "b", "p">> -> "image/webp"
       [] ext = <<"b", "m", "p">> -> "image/bmp"
       [] OTHER -> "image/jpeg"

RECURSIVE ImagesToAttachments(_)
ImagesToAttachments(images) ==
  IF images = <<>> THEN <<>>
  ELSE LET src == Get(Head(images), "@_src")
       IN (IF Truthy(src) /\ src.t = "string"
           THEN <<[filename |-> IF LastPiece(src.v, "/") # <<>> THEN LastPiece(src.v, "/")
                                ELSE <<"i", "m", "a", "g", "e">>,
                   mimeType |-> getMimeTypeFromSrc(src.v),
                   size |-> 0,
                   path |-> src.v,
                   type |-> "image"]>>
           ELSE <<>>) \o ImagesToAttachments(Tail(images))

\* src.split on a value that is not a string is a TypeError
AttachmentsThrow(topic) ==
  LET img == Get(topic, "xhtml:img")
  IN Truthy(img) /\ \E i \in DOMAIN AsArray(img) :
       LET src == Get(AsArray(img)[i], "@_src") IN Truthy(src) /\ src.t # "string"

extractAttachments(topic) ==
  LET img == Get(topic, "xhtml:img")
  IN IF Truthy(img) THEN ImagesToAttachments(AsArray(img)) ELSE <<>>

isValidTopic(topic) == IF IsArray(topic) THEN Len(topic.v) > 0 ELSE TRUE

\* !options?.maxDepth || level < options.maxDepth
WithinMaxDepth(level, options) ==
  ~Truthy(options.maxDepth) \/ level < options.maxDepth.v

\* a builder that gives a child the level of its parent
SameLevel(level) == level

\* the level parseTopic passes for a child: level + 1
ChildLevel(level) == level + 1

(* parseTopic, with the run's clock and random source made explicit: gen is *)
(* [now, seed] and k counts the ids generated so far.  The result carries   *)
(* the Topic, the new count, and whether an extraction step threw.          *)
RECURSIVE parseTopic(_, _, _, _, _, _)
RECURSIVE parseChildren(_, _, _, _, _, _)
parseTopic(topic, level, parentId, options, gen, k) ==
  LET own == Get(topic, "@_id")
      id == IF Truthy(own) THEN own ELSE generateId(gen.now, gen.seed, k)
      k1 == IF Truthy(own) THEN k ELSE k + 1
      topics == Get(Get(topic, "children"), "topics")
      kids == IF Truthy(topics) /\ WithinMaxDepth(level, options)
              THEN parseChildren(AsArray(topics), ChildLevel(level), id, options, gen, k1)
              ELSE [list |-> <<>>, k |-> k1, err |-> FALSE]
  IN [topic |-> [id |-> id,
                 title |-> extractTitle(topic),
                 level |-> level,
                 parentId |-> parentId,
                 children |-> kids.list,
                 markers |-> extractMarkers(topic),
                 links |-> extractLinks(topic),
                 notes |-> extractNotes(topic),
                 labels |-> extractLabels(topic),
                 attachments |-> extractAttachments(topic)],
      k |-> kids.k,
      err |-> kids.err \/ LinksThrow(topic) \/ AttachmentsThrow(topic)]

parseChildren(childTopics, level, parentId, options, gen, k) ==
  IF childTopics = <<>> THEN [list |-> <<>>, k |-> k, err |-> FALSE]
  ELSE IF ~isValidTopic(Head(childTopics))
       THEN parseChildren(Tail(childTopics), level, parentId, options, gen, k)
       ELSE LET first == parseTopic(Head(childTopics), level, parentId, options, gen, k)
                rest == parseChildren(Tail(childTopics), level, parentId, options, gen, first.k)
            IN IF first.err THEN [list |-> <<>>, k |-> first.k, err |-> TRUE]
               ELSE [list |-> <<first.topic>> \o rest.list, k |-> rest.k, err |-> rest.err]

(* The outcome of a call: a value, or a thrown Error with its message.      *)
Returned(v) == [ok |-> TRUE, value |-> v]
Thrown(msg) == [ok |-> FALSE, error |-> msg, isError |-> TRUE]

\* 'No root topic found in XMind content'
MsgNoRootTopic ==
  <<"N", "o", " ", "r", "o", "o", "t", " ", "t", "o", "p", "i", "c", " ", "f", "o", "u", "n", "d", " ", "i", "n", " ", "X", "M", "i", "n", "d", " ", "c", "o", "n", "t", "e", "n", "t">>

\* the message of the TypeError raised by calling a string method on a value
\* that is not a string
MsgTypeError ==
  <<"x", ".", "t", "r", "i", "m", " ", "i", "s", " ", "n", "o", "t", " ", "a", " ", "f", "u", "n", "c", "t", "i", "o", "n">>

\* a builder that reads the root topic without checking that it is there
extractTopicTree_unchecked(content, options, gen) ==
  LET rootTopic == Get(content, "topic")
      built == parseTopic(rootTopic, 0, Undef, options, gen, 0)
  IN IF ~Truthy(rootTopic) \/ built.err THEN Thrown(MsgTypeError)
     ELSE Returned(built.topic)

extractTopicTree(content, options, gen) ==
  LET rootTopic == Get(content, "topic")
      built == parseTopic(rootTopic, 0, Undef, options, gen, 0)
  IN IF ~Truthy(rootTopic) THEN Thrown(MsgNoRootTopic)
     ELSE IF built.err THEN Thrown(MsgTypeError)
     ELSE Returned(built.topic)

\* XmindParser.parseXML after this.parser.parse succeeded with parsed
SelectSheet(parsed) ==
  LET sheet == Get(Get(parsed, "xmap-content"), "sheet")
      sheets == Get(Get(parsed, "sheets"), "sheet")
  IN IF Truthy(sheet) THEN sheet
     ELSE IF Truthy(Get(parsed, "sheet")) THEN Get(parsed, "sheet")
     ELSE IF Truthy(Get(parsed, "sheets")) /\ IsArray(sheets) THEN sheets.v[1]
     ELSE IF Truthy(Get(parsed, "map")) THEN Get(parsed, "map")
     ELSE parsed

(***************************************************************************)
(* Source topics: the documents the model feeds to the program              *)
(*                                                                         *)
(* A source topic is what an author drew: [id, title, markers, href,       *)
(* notes, labels, imgs, kids], an empty string meaning "not given".  It is *)
(* turned into the program's input either as XML text (ToXml) or as a      *)
(* parsed object of the ParsedTopic interface (EncodeTopic), in each shape *)
(* of the child-topic container.                                           *)
(***************************************************************************)
MaxLevel == 3
MaxKids == 2
MaxXmlLevel == 1

PathDigits(path) == [i \in 1..Len(path) |-> Digits[path[i] + 1]]

MessyTitle == <<" ", " ", "A", " ", " ", " ", "<", "b", ">", " ", " ">>
FlagRed == <<"f", "l", "a", "g", "-", "r", "e", "d">>
UnknownMarker == <<"z", "z">>

SrcTopic(path, F, kids) ==
  [id |-> IF "id" \in F THEN <<"n">> \o PathDigits(path) ELSE <<>>,
   title |-> IF "messy" \in F THEN MessyTitle
             ELSE IF "numtitle" \in F THEN <<"7">>
             ELSE IF "title" \in F THEN <<"T">> \o PathDigits(path)
             ELSE <<>>,
   markers |-> IF "markers" \in F THEN <<FlagRed, UnknownMarker>> ELSE <<>>,
   href |-> IF "href" \notin F THEN <<>>
            ELSE IF "numhref" \in F THEN <<"4", "2">>
            ELSE IF Len(path) % 3 = 0 THEN <<"u", ":", "x">>
            ELSE IF Len(path) % 3 = 1 THEN <<"#", "n">>
            ELSE <<".", "/", "f">>,
   notes |-> IF "notes" \in F THEN <<"n", "o", " ", "\n", " ", "t", "e">> ELSE <<>>,
   labels |-> IF "inject" \in F THEN <<<<"a", "\n", "#", " ", "b">>>>
              ELSE IF "labels" \in F THEN <<<<"l", "a">>, <<"l", "b">>>>
              ELSE <<>>,
   imgs |-> IF "img" \in F THEN <<<<"d", "/", "p", ".", "P", "N", "G">>>> ELSE <<>>,
   kids |-> kids]

\* a tree of depth d whose nodes have w children, the j-th of which goes on
RECURSIVE Comb(_, _, _, _, _)
Comb(path, d, w, j, F) ==
  SrcTopic(path, F,
           IF d = 0 THEN <<>>
           ELSE [i \in 1..w |-> Comb(path \o <<i>>, IF i = j THEN d - 1 ELSE 0, w, j, F)])

FeatureSets ==
  { {},
    {"title"},
    {"id"},
    {"id", "title"},
    {"id", "title", "markers"},
    {"id", "title", "markers", "notes", "labels", "href", "img"},
    {"id", "messy", "notes"},
    {"id", "title", "inject"},
    {"id", "numtitle"},
    {"id", "title", "href", "numhref"} }

\* root "Root" with one child "Child" carrying the marker flag-red
RootChildDoc ==
  [id |-> <<"r">>, title |-> <<"R", "o", "o", "t">>, markers |-> <<>>, href |-> <<>>,
   notes |-> <<>>, labels |-> <<>>, imgs |-> <<>>,
   kids |-> <<[id |-> <<"c">>, title |-> <<"C", "h", "i", "l", "d">>, markers |-> <<FlagRed>>,
               href |-> <<>>, notes |-> <<>>, labels |-> <<>>, imgs |-> <<>>,
               kids |-> <<>>]>>]

\* a single topic whose marker ids are in no table: an ordinary word, a
\* name objects inherit, and a number
OddMarkersDoc ==
  [id |-> <<"r">>, title |-> <<"R", "o", "o", "t">>,
   markers |-> <<UnknownMarker, Constructor, <<"0">>>>, href |-> <<>>,
   notes |-> <<>>, labels |-> <<>>, imgs |-> <<>>, kids |-> <<>>]

\* a root with two children whose ids differ in the document and are
\* both numerals of seven
NumericIdsDoc ==
  [RootChildDoc EXCEPT
     !.kids = <<[RootChildDoc.kids[1] EXCEPT !.id = <<"7">>, !.markers = <<>>],
                [RootChildDoc.kids[1] EXCEPT !.id = <<"0", "7">>, !.markers = <<>>]>>]

TreesTo(depth) ==
  {Comb(<<>>, d, w, j, F) : d \in 0..depth, w \in 1..MaxKids, j \in {1, MaxKids},
                            F \in FeatureSets}
  \cup {RootChildDoc, OddMarkersDoc, NumericIdsDoc}

SrcTrees == TreesTo(MaxLevel)

\* the trees that are written out as XML text
XmlTrees == TreesTo(MaxXmlLevel)

Shapes == {"seq", "empty", "bare", "double", "wrapped", "xml"}

RECURSIVE EncodeTopic(_, _)
EncodeTopic(src, shape) ==
  LET k == Len(src.kids)
      kids == JArr([i \in 1..k |-> EncodeTopic(src.kids[i], shape)])
      Topics(v) == JObj([key \in {"topics"} |-> v])
      container ==
        CASE k = 0 -> Topics(JArr(<<>>))
          [] k = 1 /\ shape = "bare" -> Topics(kids.v[1])
          [] k > 0 /\ shape = "double" -> Topics(JArr(<<kids>>))
          [] k > 0 /\ shape = "wrapped" ->
               Topics(JArr(<<JObj([key \in {"@_type", "topic"} |->
                                    IF key = "topic" THEN kids
                                    ELSE JStr(<<"a", "t", "t", "a", "c", "h", "e", "d">>)])>>))
          [] OTHER -> Topics(kids)
      keys == (IF src.id # <<>> THEN {"@_id"} ELSE {})
              \cup (IF src.title # <<>> THEN {"title"} ELSE {})
              \cup (IF src.markers # <<>> THEN {"marker-refs"} ELSE {})
              \cup (IF src.href # <<>> THEN {"@_href"} ELSE {})
              \cup (IF src.notes # <<>> THEN {"notes"} ELSE {})
              \cup (IF src.labels # <<>> THEN {"labels"} ELSE {})
              \cup (IF src.imgs # <<>> THEN {"xhtml:img"} ELSE {})
              \cup (IF k > 0 \/ shape = "empty" THEN {"children"} ELSE {})
  IN JObj([key \in keys |->
            CASE key = "@_id" -> ParseValue(src.id)
              [] key = "title" -> ParseValue(src.title)
              [] key = "marker-refs" ->
                   JObj([r \in {"marker-ref"} |->
                          JArr([i \in 1..Len(src.markers) |->
                                 JObj([a \in {"@_marker-id"} |-> ParseValue(src.markers[i])])])])
              [] key = "@_href" -> ParseValue(src.href)
              [] key = "notes" -> JObj([n \in {"plain-text"} |-> JStr(src.notes)])
              [] key = "labels" ->
                   JObj([l \in {"label"} |->
                          JArr([i \in 1..Len(src.labels) |-> JStr(src.labels[i])])])
              [] key = "xhtml:img" ->
                   JArr([i \in 1..Len(src.imgs) |->
                          JObj([a \in {"@_src"} |-> ParseValue(src.imgs[i])])])
              [] OTHER -> container])

RECURSIVE ToXml(_)
ToXml(src) ==
  LET attrs == [a \in (IF src.id # <<>> THEN {"id"} ELSE {})
                      \cup (IF src.href # <<>> THEN {"href"} ELSE {}) |->
                 IF a = "id" THEN src.id ELSE src.href]
      Leaf(name, text) == Elem(name, NoAttrs, <<>>, text)
  IN Elem("topic", attrs,
          (IF src.title # <<>> THEN <<Leaf("title", src.title)>> ELSE <<>>)
          \o (IF src.markers # <<>>
              THEN <<Elem("marker-refs", NoAttrs,
                          [i \in 1..Len(src.markers) |->
                            Elem("marker-ref", [a \in {"marker-id"} |-> src.markers[i]],
                                 <<>>, <<>>)],
                          <<>>)>>
              ELSE <<>>)
          \o (IF src.notes # <<>>
              THEN <<Elem("notes", NoAttrs, <<Leaf("plain-text", src.notes)>>, <<>>)>>
              ELSE <<>>)
          \o (IF src.labels # <<>>
              THEN <<Elem("labels", NoAttrs,
                          [i \in 1..Len(src.labels) |-> Leaf("label", src.labels[i])], <<>>)>>
              ELSE <<>>)
          \o [i \in 1..Len(src.imgs) |->
               Elem("xhtml:img", [a \in {"src"} |-> src.imgs[i]], <<>>, <<>>)]
          \o (IF src.kids # <<>>
              THEN <<Elem("children", NoAttrs,
                          <<Elem("topics",
                                 [a \in {"type"} |-> <<"a", "t", "t", "a", "c", "h", "e", "d">>],
                                 [i \in 1..Len(src.kids) |-> ToXml(src.kids[i])],
                                 <<>>)>>,
                          <<>>)>>
              ELSE <<>>),
          <<>>)

\* <xmap-content><sheet id="s"> topic <title>S</title></sheet></xmap-content>
SheetOf(topics) ==
  Elem("sheet", [a \in {"id"} |-> <<"s">>],
       topics \o <<Elem("title", NoAttrs, <<>>, <<"S">>)>>, <<>>)

XmindDocument(src) == Elem("xmap-content", NoAttrs, <<SheetOf(<<ToXml(src)>>)>>, <<>>)

\* the parsed content handed to extractTopicTree for a source tree in a shape
ContentOf(src, shape) ==
  IF shape = "xml" THEN SelectSheet(ParseDocument(XmindDocument(src)))
  ELSE JObj([key \in {"topic"} |-> EncodeTopic(src, shape)])

(***************************************************************************)
(* XmindToMarkdownConverter (src/lib/parser.ts): the Markdown Renderer     *)
(***************************************************************************)
\* a sanitizer that collapses white space but keeps it at the ends
sanitizeTitle_untrimmed(t) == EscapeAngles(CollapseSpaces(t))

\* title.trim().replace(/\s+/g, ' ').replace(/</g, '&lt;').replace(/>/g, '&gt;')
sanitizeTitle(title) == EscapeAngles(CollapseSpaces(Trim(title)))

TrimmedNonEmpty(ls) ==
  SelectSeq([i \in 1..Len(ls) |-> Trim(ls[i])], LAMBDA l : l # <<>>)

\* notes.split('\n').map(trim).filter(nonempty).join('\n> ')
notesToBlockquote(notes) == Join(TrimmedNonEmpty(Split(notes, "\n")), <<"\n", ">", " ">>)

RECURSIVE Sum(_)
Sum(ns) == IF ns = <<>> THEN 0 ELSE Head(ns) + Sum(Tail(ns))

RECURSIVE Max(_)
Max(ns) ==
  IF Len(ns) = 1 THEN ns[1]
  ELSE LET m == Max(Tail(ns)) IN IF Head(ns) > m THEN Head(ns) ELSE m

\* a count of the root and its direct children only
countTopics_shallow(topic) == 1 + Len(topic.children)

\* the depth of the first branch only
RECURSIVE getMaxDepth_first(_)
getMaxDepth_first(topic) ==
  IF topic.children = <<>> THEN topic.level ELSE getMaxDepth_first(topic.children[1])

RECURSIVE countTopics(_)
countTopics(topic) ==
  1 + Sum([i \in 1..Len(topic.children) |-> countTopics(topic.children[i])])

RECURSIVE getMaxDepth(_)
getMaxDepth(topic) ==
  IF topic.children = <<>> THEN topic.level
  ELSE Max([i \in 1..Len(topic.children) |-> getMaxDepth(topic.children[i])])

\* s.repeat(n)
Repeat(s, n) == [i \in 1..(n * Len(s)) |-> s[((i - 1) % Len(s)) + 1]]

\* the backtick is written as its code point
Backtick == "U+0060"

Backticked(labels) == [i \in 1..Len(labels) |-> <<Backtick>> \o labels[i] \o <<Backtick>>]

LinkSymbol == "U+1F517"
PaperclipSymbol == "U+1F4CE"

\* the lines convertTopic pushes for the links of a topic
LinkLines(links) ==
  IF links = <<>> THEN <<>>
  ELSE Flatten([i \in 1..Len(links) |->
                 IF links[i].type \in {"url", "file"}
                 THEN <<<<LinkSymbol, " ", "[">> \o links[i].href \o <<"]", "(">>
                          \o links[i].href \o <<")">>>>
                 ELSE <<>>]) \o <<<<>>>>

AttachmentLines(attachments) ==
  IF attachments = <<>> THEN <<>>
  ELSE [i \in 1..Len(attachments) |->
         (IF attachments[i].type = "image" THEN <<"!", "[">>
          ELSE <<PaperclipSymbol, " ", "[">>)
         \o attachments[i].filename \o <<"]", "(">> \o attachments[i].path \o <<")">>]
       \o <<<<>>>>

\* the lines convertTopic pushes for a topic and its subtree.  The builder
\* never sets createdAt or modifiedAt, so includeTimestamps adds no line.
RECURSIVE convertTopic(_, _, _)
convertTopic(topic, depth, options) ==
  LET headingPrefix == Repeat(<<"#">>, IF depth < 6 THEN depth ELSE 6)
      title == sanitizeTitle(topic.title.v)
      markerStr == IF topic.markers # <<>> THEN <<" ">> \o Join(topic.markers, <<" ">>) ELSE <<>>
      idStr == IF options.includeIds /\ Truthy(topic.id)
               THEN <<" ", "{", ":", " ", "i", "d", "=", "\"">> \o ToStr(topic.id) \o <<"\"", "}">>
               ELSE <<>>
      topicLine == headingPrefix \o <<" ">> \o title \o markerStr \o idStr
      notes == IF Truthy(topic.notes)
               THEN <<<<>>, <<">", " ">> \o notesToBlockquote(topic.notes.v), <<>>>>
               ELSE <<>>
      labels == IF topic.labels # <<>>
                THEN <<<<"*", "*", "T", "a", "g", "s", ":", "*", "*", " ">> \o Join(Backticked(topic.labels), <<" ">>), <<>>>>
                ELSE <<>>
  IN <<topicLine>> \o notes \o labels \o LinkLines(topic.links)
     \o AttachmentLines(topic.attachments)
     \o Flatten([i \in 1..Len(topic.children) |->
                  convertTopic(topic.children[i], depth + 1, options)])

\* sanitizeTitle or notesToBlockquote called on a value that is not a string
RECURSIVE ConvertThrows(_)
ConvertThrows(topic) ==
  \/ topic.title.t # "string"
  \/ Truthy(topic.notes) /\ topic.notes.t # "string"
  \/ \E i \in DOMAIN topic.children : ConvertThrows(topic.children[i])

MetadataLines(rootTopic, now) ==
  << <<"<", "!", "-", "-">>,
     <<"G", "e", "n", "e", "r", "a", "t", "e", "d", ":", " ">> \o NatToStr(now),
     <<"T", "o", "p", "i", "c", "s", ":", " ">> \o NatToStr(countTopics(rootTopic)),
     <<"M", "a", "x", " ", "D", "e", "p", "t", "h", ":", " ">> \o NatToStr(getMaxDepth(rootTopic)),
     <<"-", "-", ">">>,
     <<>> >>

\* a renderer that writes the id of the root into its heading
TreeLines_rootId(rootTopic, options, now) ==
  << <<"#", " ">> \o sanitizeTitle(rootTopic.title.v) \o <<" ">> \o ToStr(rootTopic.id), <<>> >>
  \o (IF options.includeMetadata THEN MetadataLines(rootTopic, now) ELSE <<>>)
  \o Flatten([i \in 1..Len(rootTopic.children) |->
               convertTopic(rootTopic.children[i], 2, options)])

\* the lines array of topicTreeToMarkdown; now is what new Date() reads
TreeLines(rootTopic, options, now) ==
  << <<"#", " ">> \o sanitizeTitle(rootTopic.title.v), <<>> >>
  \o (IF options.includeMetadata THEN MetadataLines(rootTopic, now) ELSE <<>>)
  \o Flatten([i \in 1..Len(rootTopic.children) |->
               convertTopic(rootTopic.children[i], 2, options)])

topicTreeToMarkdown(rootTopic, options, now) ==
  IF rootTopic.title.t # "string" \/ \E i \in DOMAIN rootTopic.children :
                                        ConvertThrows(rootTopic.children[i])
  THEN Thrown(MsgTypeError)
  ELSE Returned(Join(TreeLines(rootTopic, options, now), <<"\n">>))

(***************************************************************************)
(* test-local.mjs (src/unnamed/part_003): the second renderer               *)
(***************************************************************************)
\* MARKER_MAP of test-local.mjs
MARKER_MAP_local ==
  {
    <<<<"p", "r", "i", "o", "r", "i", "t", "y", "-", "1">>, <<"U+1F534">>>>,
    <<<<"p", "r", "i", "o", "r", "i", "t", "y", "-", "2">>, <<"U+1F7E0">>>>,
    <<<<"p", "r", "i", "o", "r", "i", "t", "y", "-", "3">>, <<"U+1F7E1">>>>,
    <<<<"p", "r", "i", "o", "r", "i", "t", "y", "-", "4">>, <<"U+1F535">>>>,
    <<<<"p", "r", "i", "o", "r", "i", "t", "y", "-", "5">>, <<"U+26AA">>>>,
    <<<<"p", "r", "i", "o", "r", "i", "t", "y", "-", "6">>, <<"U+1F7E3">>>>,
    <<<<"f", "l", "a", "g">>, <<"U+1F6A9">>>>,
    <<<<"s", "m", "i", "l", "e">>, <<"U+1F60A">>>>,
    <<<<"f", "r", "o", "w", "n">>, <<"U+2639", "U+FE0F">>>>,
    <<<<"s", "t", "a", "r">>, <<"U+2B50">>>>,
    <<<<"c", "h", "e", "c", "k">>, <<"U+2705">>>>,
    <<<<"c", "r", "o", "s", "s">>, <<"U+274C">>>>,
    <<<<"q", "u", "e", "s", "t", "i", "o", "n">>, <<"U+2753">>>>,
    <<<<"e", "x", "c", "l", "a", "m", "a", "t", "i", "o", "n">>, <<"U+2757">>>>,
    <<<<"a", "r", "r", "o", "w", "-", "r", "i", "g", "h", "t">>, <<"U+27A1", "U+FE0F">>>>,
    <<<<"a", "r", "r", "o", "w", "-", "l", "e", "f", "t">>, <<"U+2B05", "U+FE0F">>>>,
    <<<<"a", "r", "r", "o", "w", "-", "u", "p">>, <<"U+2B06", "U+FE0F">>>>,
    <<<<"a", "r", "r", "o", "w", "-", "d", "o", "w", "n">>, <<"U+2B07", "U+FE0F">>>>,
    <<<<"p", "l", "u", "s">>, <<"U+2795">>>>,
    <<<<"m", "i", "n", "u", "s">>, <<"U+2796">>>>,
    <<<<"t", "a", "s", "k", "-", "s", "t", "a", "r", "t">>, <<"U+25B6", "U+FE0F">>>>,
    <<<<"t", "a", "s", "k", "-", "d", "o", "n", "e">>, <<"U+2705">>>>,
    <<<<"t", "a", "s", "k", "-", "h", "a", "l", "f">>, <<"U+1F536">>>>,
    <<<<"t", "a", "s", "k", "-", "w", "a", "i", "t">>, <<"U+23F8", "U+FE0F">>>>,
    <<<<"t", "a", "s", "k", "-", "r", "e", "v", "i", "e", "w">>, <<"U+1F441", "U+FE0F">>>>,
    <<<<"p", "r", "o", "g", "r", "e", "s", "s", "-", "0">>, <<"U+2B1C">>>>,
    <<<<"p", "r", "o", "g", "r", "e", "s", "s", "-", "1">>, <<"U+1F7E9">>>>,
    <<<<"p", "r", "o", "g", "r", "e", "s", "s", "-", "2">>, <<"U+1F7E9", "U+1F7E9">>>>,
    <<<<"p", "r", "o", "g", "r", "e", "s", "s", "-", "3">>, <<"U+1F7E9", "U+1F7E9", "U+1F7E9">>>>,
    <<<<"p", "r", "o", "g", "r", "e", "s", "s", "-", "4">>, <<"U+1F7E9", "U+1F7E9", "U+1F7E9", "U+1F7E9">>>>,
    <<<<"p", "r", "o", "g", "r", "e", "s", "s", "-", "5">>, <<"U+1F7E9", "U+1F7E9", "U+1F7E9", "U+1F7E9", "U+1F7E9">>>>
  }

\* MARKER_MAP[markerId]
markerMap_local(markerId) ==
  IF \E e \in MARKER_MAP_local : e[1] = markerId
  THEN (CHOOSE e \in MARKER_MAP_local : e[1] = markerId)[2]
  ELSE IF markerId \in ObjectPrototypeKeys THEN Inherited(markerId)
  ELSE <<>>

\* extractMarkers of test-local.mjs: the symbol, or else the id itself
extractMarkers_local(topic) ==
  LET refs == Get(Get(topic, "marker-refs"), "marker-ref")
      MarkerId(ref) ==
        Or(Or(Or(Get(ref, "marker-id"), Get(ref, "@_marker-id")), Get(ref, "id")),
           JStr(<<>>))
      Emoji(markerId) ==
        IF markerId.t = "string" /\ markerMap_local(markerId.v) # <<>>
        THEN JStr(markerMap_local(markerId.v))
        ELSE markerId
      pushed == [i \in 1..Len(AsArray(refs)) |-> Emoji(MarkerId(AsArray(refs)[i]))]
  IN IF Truthy(refs)
     THEN [i \in 1..Len(SelectSeq(pushed, Truthy)) |-> ToStr(SelectSeq(pushed, Truthy)[i])]
     ELSE <<>>

FirstMarker(topic) == IF topic.markers # <<>> THEN topic.markers[1] \o <<" ">> ELSE <<>>

\* text.replace(/U+FF1A$/g, '')
StripFullWidthColon(text) ==
  IF text # <<>> /\ text[Len(text)] = "U+FF1A" THEN SubSeq(text, 1, Len(text) - 1) ELSE text

RECURSIVE convertTopic_local(_, _)
convertTopic_local(topic, depth) ==
  LET text == sanitizeTitle(topic.title.v)
      emoji == FirstMarker(topic)
      hasChildren == topic.children # <<>>
      head ==
        CASE depth = 2 -> << <<"#", "#", " ">> \o emoji \o text, <<>> >>
          [] depth = 3 -> << <<"#", "#", "#", " ">> \o emoji \o text >>
                          \o (IF hasChildren THEN <<>> ELSE << <<>> >>)
          [] OTHER -> << Repeat(<<" ", " ">>, depth - 4) \o <<"-", " ">> \o emoji
                         \o StripFullWidthColon(text)
                         \o (IF hasChildren THEN <<":">> ELSE <<>>) >>
      notes == IF Truthy(topic.notes)
               THEN << <<>>, <<">", " ">> \o ToStr(topic.notes), <<>> >>
               ELSE <<>>
  IN head \o notes
     \o Flatten([i \in 1..Len(topic.children) |->
                  convertTopic_local(topic.children[i], depth + 1)])

RECURSIVE TitleThrows(_)
TitleThrows(topic) ==
  \/ topic.title.t # "string"
  \/ \E i \in DOMAIN topic.children : TitleThrows(topic.children[i])

TreeLines_local(rootTopic) ==
  << <<"#", " ">> \o FirstMarker(rootTopic) \o sanitizeTitle(rootTopic.title.v), <<>> >>
  \o Flatten([i \in 1..Len(rootTopic.children) |-> convertTopic_local(rootTopic.children[i], 2)])

topicTreeToMarkdown_local(rootTopic) ==
  IF TitleThrows(rootTopic) THEN Thrown(MsgTypeError)
  ELSE Returned(Join(TreeLines_local(rootTopic), <<"\n">>))

(***************************************************************************)
(* StatsCalculator (src/lib/stats.ts): the Statistics Collector            *)
(***************************************************************************)
\* the CJK character class of countWords, on code-point symbols
IsCJK(c) == c \in {"U+4E2D", "U+6587", "U+3042", "U+30A2"}

\* the number of maximal runs of characters that are neither space nor CJK
CountWordStarts(s) ==
  LET Sep(i) == IsSpace(s[i]) \/ IsCJK(s[i])
  IN Cardinality({i \in 1..Len(s) : ~Sep(i) /\ (i = 1 \/ Sep(i - 1))})

countWords(text) ==
  LET trimmed == CollapseSpaces(Trim(text))
  IN IF trimmed = <<>> THEN 0
     ELSE Cardinality({i \in 1..Len(trimmed) : IsCJK(trimmed[i])})
          + CountWordStarts(trimmed)

ZeroAccumulator ==
  [totalTopics |-> 0, maxDepth |-> 0, rootTopics |-> 1, markersProcessed |-> 0,
   attachmentsProcessed |-> 0, linksProcessed |-> 0, imagesProcessed |-> 0,
   levelDistribution |-> [l \in {} |-> 0], wordCount |-> 0, charCount |-> 0,
   topicsWithNotes |-> 0, topicsWithMarkers |-> 0, topicsWithLinks |-> 0,
   topicsWithAttachments |-> 0]

Bump(dist, level) ==
  [l \in DOMAIN dist \cup {level} |->
    (IF l \in DOMAIN dist THEN dist[l] ELSE 0) + (IF l = level THEN 1 ELSE 0)]

\* traverseTopic over string titles and notes
RECURSIVE traverseTopic(_, _)
RECURSIVE traverseTopics(_, _)
traverseTopic(topic, acc) ==
  LET hasTitle == Truthy(topic.title)
      hasNotes == Truthy(topic.notes)
      images == Cardinality({i \in DOMAIN topic.attachments :
                               topic.attachments[i].type = "image"})
      own == [acc EXCEPT
                !.totalTopics = @ + 1,
                !.maxDepth = IF topic.level > @ THEN topic.level ELSE @,
                !.levelDistribution = Bump(@, topic.level),
                !.wordCount = @ + (IF hasTitle THEN countWords(topic.title.v) ELSE 0)
                                + (IF hasNotes THEN countWords(topic.notes.v) ELSE 0),
                !.charCount = @ + (IF hasTitle THEN Len(topic.title.v) ELSE 0)
                                + (IF hasNotes THEN Len(topic.notes.v) ELSE 0),
                !.topicsWithNotes = @ + (IF hasNotes THEN 1 ELSE 0),
                !.topicsWithMarkers = @ + (IF topic.markers # <<>> THEN 1 ELSE 0),
                !.markersProcessed = @ + Len(topic.markers),
                !.topicsWithLinks = @ + (IF topic.links # <<>> THEN 1 ELSE 0),
                !.linksProcessed = @ + Len(topic.links),
                !.topicsWithAttachments = @ + (IF topic.attachments # <<>> THEN 1 ELSE 0),
                !.attachmentsProcessed = @ + Len(topic.attachments),
                !.imagesProcessed = @ + images]
  IN traverseTopics(topic.children, own)

traverseTopics(topics, acc) ==
  IF topics = <<>> THEN acc
  ELSE traverseTopics(Tail(topics), traverseTopic(Head(topics), acc))

\* countWords called on a title or on notes that are not a string
RECURSIVE StatsThrow(_)
StatsThrow(topic) ==
  \/ Truthy(topic.title) /\ topic.title.t # "string"
  \/ Truthy(topic.notes) /\ topic.notes.t # "string"
  \/ \E i \in DOMAIN topic.children : StatsThrow(topic.children[i])

\* startTime ? endTime - startTime : 0
ProcessingTime(startTime, endTime) == IF startTime # 0 THEN endTime - startTime ELSE 0

\* the object calculateDetailedStats returns for an accumulator
DetailedStats(acc, processingTime) ==
  [totalTopics |-> acc.totalTopics,
   maxDepthReached |-> acc.maxDepth,
   rootTopics |-> acc.rootTopics,
   processingTime |-> processingTime,
   markersProcessed |-> acc.markersProcessed,
   attachmentsProcessed |-> acc.attachmentsProcessed,
   linksProcessed |-> acc.linksProcessed,
   imagesProcessed |-> acc.imagesProcessed,
   wordCount |-> acc.wordCount,
   charCount |-> acc.charCount,
   levelDistribution |-> acc.levelDistribution,
   topicsWithNotes |-> acc.topicsWithNotes,
   topicsWithMarkers |-> acc.topicsWithMarkers,
   topicsWithLinks |-> acc.topicsWithLinks,
   topicsWithAttachments |-> acc.topicsWithAttachments]

calculateDetailedStats(rootTopic, startTime, endTime) ==
  IF StatsThrow(rootTopic) THEN Thrown(MsgTypeError)
  ELSE Returned(DetailedStats(traverseTopic(rootTopic, ZeroAccumulator),
                              ProcessingTime(startTime, endTime)))

(***************************************************************************)
(* client-converter.ts (src/unnamed/part_006): the browser build of the    *)
(* parser, the renderer and the statistics.  A topic without children has  *)
(* children undefined there; it is the empty sequence here, which every    *)
(* reader of children treats alike.                                        *)
(***************************************************************************)
extractMarkers_client(topic) ==
  LET refs == Get(Get(topic, "marker-refs"), "marker-ref")
      MarkerId(ref) ==
        Or(Or(Or(Get(ref, "marker-id"), Get(ref, "@_marker-id")), Get(ref, "id")),
           JStr(<<"m", "a", "r", "k", "e", "r">>))
  IN IF Truthy(refs)
     THEN [i \in 1..Len(AsArray(refs)) |->
            <<"[">> \o ToStr(MarkerId(AsArray(refs)[i])) \o <<"]">>]
     ELSE <<>>

Href_client(topic) == Or(Get(topic, "href"), Get(topic, "@_href"))

ImageSrc_client(img) == Or(Get(img, "src"), Get(img, "@_src"))

AttachmentsThrow_client(topic) ==
  LET img == Get(topic, "xhtml:img")
  IN Truthy(img) /\ \E i \in DOMAIN AsArray(img) :
       LET src == ImageSrc_client(AsArray(img)[i]) IN Truthy(src) /\ src.t # "string"

extractAttachments_client(topic) ==
  LET img == Get(topic, "xhtml:img")
      images == IF Truthy(img) THEN AsArray(img) ELSE <<>>
      valid == SelectSeq(images, LAMBDA i : LET src == ImageSrc_client(i)
                                            IN Truthy(src) /\ src.t = "string")
  IN [i \in 1..Len(valid) |->
       LET src == ImageSrc_client(valid[i]).v
       IN [filename |-> IF LastPiece(src, "/") # <<>> THEN LastPiece(src, "/")
                        ELSE <<"i", "m", "a", "g", "e">>,
           mimeType |-> "image/jpeg",
           size |-> 0,
           path |-> src,
           type |-> "image"]]

RECURSIVE parseTopic_client(_, _, _, _, _, _)
RECURSIVE parseChildren_client(_, _, _, _, _, _)
parseTopic_client(topic, level, parentId, options, gen, k) ==
  LET own == Or(Get(topic, "id"), Get(topic, "@_id"))
      id == IF Truthy(own) THEN own ELSE generateId(gen.now, gen.seed, k)
      k1 == IF Truthy(own) THEN k ELSE k + 1
      topics == Get(Get(topic, "children"), "topics")
      kids == IF Truthy(topics) /\ WithinMaxDepth(level, options)
              THEN parseChildren_client(AsArray(topics), level + 1, id, options, gen, k1)
              ELSE [list |-> <<>>, k |-> k1, err |-> FALSE]
  IN [topic |-> [id |-> id,
                 title |-> extractTitle(topic),
                 level |-> level,
                 parentId |-> parentId,
                 children |-> kids.list,
                 markers |-> extractMarkers_client(topic),
                 links |-> LinksOf(Href_client(topic)),
                 notes |-> extractNotes(topic),
                 labels |-> extractLabels(topic),
                 attachments |-> extractAttachments_client(topic)],
      k |-> kids.k,
      err |-> kids.err \/ HrefThrows(Href_client(topic)) \/ AttachmentsThrow_client(topic)]

parseChildren_client(childTopics, level, parentId, options, gen, k) ==
  IF childTopics = <<>> THEN [list |-> <<>>, k |-> k, err |-> FALSE]
  ELSE IF ~isValidTopic(Head(childTopics))
       THEN parseChildren_client(Tail(childTopics), level, parentId, options, gen, k)
       ELSE LET first == parseTopic_client(Head(childTopics), level, parentId, options, gen, k)
                rest == parseChildren_client(Tail(childTopics), level, parentId, options, gen,
                                             first.k)
            IN IF first.err THEN [list |-> <<>>, k |-> first.k, err |-> TRUE]
               ELSE [list |-> <<first.topic>> \o rest.list, k |-> rest.k, err |-> rest.err]

extractTopicTree_client(content, options, gen) ==
  LET rootTopic == Get(content, "topic")
      built == parseTopic_client(rootTopic, 0, Undef, options, gen, 0)
  IN IF ~Truthy(rootTopic) THEN Thrown(MsgNoRootTopic)
     ELSE IF built.err THEN Thrown(MsgTypeError)
     ELSE Returned(built.topic)

\* parseXML of client-converter.ts after this.parser.parse succeeded
SelectSheet_client(parsed) ==
  LET sheets == Get(Get(parsed, "sheets"), "sheet")
  IN IF Truthy(Get(parsed, "xmap-content")) THEN Get(parsed, "xmap-content")
     ELSE IF Truthy(Get(parsed, "sheet")) THEN Get(parsed, "sheet")
     ELSE IF Truthy(Get(parsed, "sheets")) /\ IsArray(sheets) THEN sheets.v[1]
     ELSE IF Truthy(Get(parsed, "map")) THEN Get(parsed, "map")
     ELSE parsed

RECURSIVE convertTopic_client(_, _, _)
convertTopic_client(topic, depth, options) ==
  LET headingPrefix == Repeat(<<"#">>, IF depth < 6 THEN depth ELSE 6)
      title == sanitizeTitle(topic.title.v)
      markerStr == IF topic.markers # <<>> THEN <<" ">> \o Join(topic.markers, <<" ">>) ELSE <<>>
      idStr == IF options.includeIds /\ Truthy(topic.id)
               THEN <<" ", "{", ":", " ", "i", "d", "=", "\"">> \o ToStr(topic.id) \o <<"\"", "}">>
               ELSE <<>>
      topicLine == headingPrefix \o <<" ">> \o title \o markerStr \o idStr
      notes == IF Truthy(topic.notes)
               THEN <<<<>>, <<">", " ">> \o notesToBlockquote(topic.notes.v), <<>>>>
               ELSE <<>>
      labels == IF topic.labels # <<>>
                THEN <<<<"*", "*", "T", "a", "g", "s", ":", "*", "*", " ">> \o Join(Backticked(topic.labels), <<" ">>), <<>>>>
                ELSE <<>>
  IN <<topicLine>> \o notes \o labels \o LinkLines(topic.links)
     \o Flatten([i \in 1..Len(topic.children) |->
                  convertTopic_client(topic.children[i], depth + 1, options)])

topicTreeToMarkdown_client(rootTopic, options, now) ==
  IF rootTopic.title.t # "string" \/ \E i \in DOMAIN rootTopic.children :
                                        ConvertThrows(rootTopic.children[i])
  THEN Thrown(MsgTypeError)
  ELSE Returned(Join(
         << <<"#", " ">> \o sanitizeTitle(rootTopic.title.v), <<>> >>
         \o (IF options.includeMetadata THEN MetadataLines(rootTopic, now) ELSE <<>>)
         \o Flatten([i \in 1..Len(rootTopic.children) |->
                      convertTopic_client(rootTopic.children[i], 2, options)]),
         <<"\n">>))

\* the sums of the traverse function of calculateStats
RECURSIVE traverse_client(_)
traverse_client(topic) ==
  LET below == [i \in 1..Len(topic.children) |-> traverse_client(topic.children[i])]
      images == Cardinality({i \in DOMAIN topic.attachments :
                               topic.attachments[i].type = "image"})
  IN [totalTopics |-> 1 + Sum([i \in DOMAIN below |-> below[i].totalTopics]),
      maxDepth |-> Max(<<topic.level>> \o [i \in DOMAIN below |-> below[i].maxDepth]),
      markersProcessed |->
        Len(topic.markers) + Sum([i \in DOMAIN below |-> below[i].markersProcessed]),
      attachmentsProcessed |->
        Len(topic.attachments) + Sum([i \in DOMAIN below |-> below[i].attachmentsProcessed]),
      linksProcessed |->
        Len(topic.links) + Sum([i \in DOMAIN below |-> below[i].linksProcessed]),
      imagesProcessed |-> images + Sum([i \in DOMAIN below |-> below[i].imagesProcessed])]

\* the object calculateStats returns for the sums of the traversal
ClientStats(sums, rootTopic, startTime, endTime) ==
  [totalTopics |-> sums.totalTopics,
   maxDepthReached |-> IF sums.maxDepth > 0 THEN sums.maxDepth ELSE 0,
   rootTopics |-> Len(rootTopic.children),
   processingTime |-> endTime - startTime,
   markersProcessed |-> sums.markersProcessed,
   attachmentsProcessed |-> sums.attachmentsProcessed,
   linksProcessed |-> sums.linksProcessed,
   imagesProcessed |-> sums.imagesProcessed]

calculateStats_client(rootTopic, startTime, endTime) ==
  ClientStats(traverse_client(rootTopic), rootTopic, startTime, endTime)

(***************************************************************************)
(* The archive and its XML payloads                                         *)
(*                                                                         *)
(* The file handed to convert is [kind, name, read, zip, entries, bad]:    *)
(* read tells how file.arrayBuffer() settles, zip whether JSZip.loadAsync  *)
(* accepts the bytes, entries maps the paths present in the archive to     *)
(* their text, bad holds the entries whose decompression fails.  An XML    *)
(* text is [kind, at]: what it contains and the entry it was stored at.    *)
(***************************************************************************)
\* contentPaths of XmindToMarkdownConverter.extractXmindContent
contentPaths ==
  <<"content/content.xml", "content.xml", "src/content.xml", "META-INF/content.xml">>

\* contentPaths of extractXmindContent in client-converter.ts
contentPaths_client ==
  <<"content.xml", "src/content.xml", "META-INF/content.xml", "content/content.xml">>

\* contentPaths of convertXmindToMarkdown in test-local.mjs
contentPaths_local ==
  <<"content.xml", "src/content.xml", "META-INF/content.xml", "content/content.xml">>

AllPaths == {contentPaths[i] : i \in DOMAIN contentPaths}

PathIndex(path) == CHOOSE i \in DOMAIN contentPaths : contentPaths[i] = path

\* for (const path of paths) { if (zip.file(path)) ... }: the first path present
FirstMatch(paths, entries) ==
  LET present == SelectSeq(paths, LAMBDA path : path \in DOMAIN entries)
  IN IF present = <<>> THEN "none" ELSE present[1]

PayloadKinds == {"doc", "noroot", "sheets", "map", "empty", "unclosed"}

Payload(kind, path) == [kind |-> kind, at |-> path]

\* the mind map stored at a path: its titles and ids name the path
PayloadTree(path) == Comb(<<PathIndex(path)>>, 1, 1, 1, {"id", "title", "markers", "notes"})

\* the document element of a well-formed payload
PayloadRoot(xml) ==
  LET topic == ToXml(PayloadTree(xml.at))
  IN CASE xml.kind = "doc" -> XmindDocument(PayloadTree(xml.at))
       [] xml.kind = "noroot" -> Elem("xmap-content", NoAttrs, <<SheetOf(<<>>)>>, <<>>)
       [] xml.kind = "sheets" ->
            Elem("xmap-content", NoAttrs, <<SheetOf(<<topic>>), SheetOf(<<topic>>)>>, <<>>)
       [] OTHER -> Elem("map", NoAttrs, <<topic>>, <<>>)

\* the message of the Error XMLParser.parse throws on a tag that is not closed
MsgUnclosed ==
  <<"U", "n", "c", "l", "o", "s", "e", "d", " ", "t", "a", "g">>

\* 'Failed to parse XML: '
MsgParsePrefix ==
  <<"F", "a", "i", "l", "e", "d", " ", "t", "o", " ", "p", "a", "r", "s", "e", " ", "X", "M", "L", ":", " ">>

\* a reworded message that no longer names the entry that was looked for
MsgNoMindMap ==
  <<"N", "o", " ", "m", "i", "n", "d", " ", "m", "a", "p", " ", "f", "o", "u", "n", "d">>

\* 'Could not find content.xml in XMind file'
MsgNoContent ==
  <<"C", "o", "u", "l", "d", " ", "n", "o", "t", " ", "f", "i", "n", "d", " ", "c", "o", "n", "t", "e", "n", "t", ".", "x", "m", "l", " ", "i", "n", " ", "X", "M", "i", "n", "d", " ", "f", "i", "l", "e">>

\* the message of the Error JSZip.loadAsync rejects with
MsgNotZip ==
  <<"n", "o", "t", " ", "a", " ", "z", "i", "p", " ", "f", "i", "l", "e">>

\* the message of the Error contentFile.async rejects with
MsgCorrupt ==
  <<"c", "o", "r", "r", "u", "p", "t", "e", "d", " ", "e", "n", "t", "r", "y">>

\* the message of the Error file.arrayBuffer rejects with
MsgNotReadable ==
  <<"f", "i", "l", "e", " ", "n", "o", "t", " ", "r", "e", "a", "d", "a", "b", "l", "e">>

\* 'Unknown error occurred'
MsgUnknown ==
  <<"U", "n", "k", "n", "o", "w", "n", " ", "e", "r", "r", "o", "r", " ", "o", "c", "c", "u", "r", "r", "e", "d">>

\* 'Conversion failed'
MsgConversionFailed ==
  <<"C", "o", "n", "v", "e", "r", "s", "i", "o", "n", " ", "f", "a", "i", "l", "e", "d">>

\* this.parser.parse(xmlContent) under the given parser options
parse(xml, cfg) ==
  CASE xml.kind = "unclosed" -> Thrown(MsgUnclosed)
    [] xml.kind = "empty" -> Returned(EmptyObj)
    [] OTHER -> Returned(ParseDocumentWith(PayloadRoot(xml), cfg))

\* XmindParser.parseXML
parseXML(xml) ==
  LET parsed == parse(xml, DEFAULT_PARSER_OPTIONS)
  IN IF parsed.ok THEN Returned(SelectSheet(parsed.value))
     ELSE Thrown(MsgParsePrefix \o parsed.error)

\* parseXML of client-converter.ts
parseXML_client(xml) ==
  LET parsed == parse(xml, ClientParserOptions)
  IN IF parsed.ok THEN Returned(SelectSheet_client(parsed.value))
     ELSE Thrown(MsgParsePrefix \o parsed.error)

Archive(entries) ==
  [kind |-> "ArrayBuffer", name |-> <<>>, read |-> "ok", zip |-> TRUE,
   entries |-> entries, bad |-> {}]

StandardPath == "content/content.xml"

OneEntry(kind) == [path \in {StandardPath} |-> Payload(kind, path)]

Files ==
  {Archive([path \in present |-> Payload("doc", path)]) : present \in SUBSET AllPaths}
  \cup {Archive(OneEntry(kind)) : kind \in PayloadKinds}
  \cup {[Archive(OneEntry("doc")) EXCEPT !.bad = {StandardPath}],
        [Archive(OneEntry("doc")) EXCEPT !.zip = FALSE]}
  \cup {[Archive(OneEntry("doc")) EXCEPT !.kind = "File", !.name = <<"m", ".", "x">>,
                                          !.read = r] : r \in {"ok", "error", "other"}}

(***************************************************************************)
(* State                                                                   *)
(*                                                                         *)
(* options is the converter's this.options.  src .. stats follow one       *)
(* document through the public operations of the parser, the renderers and *)
(* the statistics collector, called one after another.  entry .. clock     *)
(* follow the calls of one entry point of the pipeline on one file: entry  *)
(* is the entry point in use, calls[c] the progress of call c, clock what  *)
(* performance.now() and Date.now() read.  batch is one call of            *)
(* convertBatch: its files, the position of its loop and its results.      *)
(* title is one title on its way through sanitizeTitle.  store is the      *)
(* localStorage entry of a StorageManager with what its last call did,     *)
(* registry a ShortcutRegistry, attempt one call of retry, and ui the      *)
(* state of the Converter component.                                       *)
(***************************************************************************)
VARIABLES options, src, shape, gen, pc, tree, markdown, stats,
          entry, file, calls, clock, batch, title, store, registry, attempt, ui

\* the state of the utilities beside the converter
utilVars == <<title, store, registry, attempt, ui>>

\* the state of the converter
converterVars ==
  <<options, src, shape, gen, pc, tree, markdown, stats, entry, file, calls, clock, batch>>

treeVars == <<options, src, shape, gen, pc, tree, markdown, stats>>
convertVars == <<entry, file, calls, clock, batch, utilVars>>
vars ==
  <<options, src, shape, gen, pc, tree, markdown, stats, entry, file, calls, clock, batch,
    utilVars>>

\* DEFAULT_OPTIONS, restricted to the options the code reads
DEFAULT_OPTIONS ==
  [includeMetadata |-> FALSE, includeIds |-> FALSE, includeTimestamps |-> FALSE,
   maxDepth |-> Undef]

\* the defaults of convertXmindToMarkdown in client-converter.ts
ClientDefaults ==
  [includeMetadata |-> TRUE, includeIds |-> FALSE, includeTimestamps |-> FALSE,
   maxDepth |-> Undef]

\* { ...base, ...partial }
Merge(base, partial) ==
  [k \in DOMAIN base \cup DOMAIN partial |->
    IF k \in DOMAIN partial THEN partial[k] ELSE base[k]]

OptionChoices ==
  { DEFAULT_OPTIONS,
    [DEFAULT_OPTIONS EXCEPT !.includeMetadata = TRUE],
    [DEFAULT_OPTIONS EXCEPT !.includeIds = TRUE],
    [DEFAULT_OPTIONS EXCEPT !.maxDepth = JNum(0)],
    [DEFAULT_OPTIONS EXCEPT !.maxDepth = JNum(1)],
    [DEFAULT_OPTIONS EXCEPT !.maxDepth = JNum(2), !.includeTimestamps = TRUE] }

\* the partial options a caller passes
PartialChoices ==
  { [k \in {} |-> TRUE],
    [k \in {"includeMetadata"} |-> TRUE],
    [k \in {"includeMetadata"} |-> FALSE] }

MaxClock == 2

\* what Date.now() and Math.random() give during one run
Gens == [now : 1..MaxClock, seed : RandomSeeds]

TreeIdle ==
  /\ src = Undef /\ shape = "none" /\ gen = Undef /\ pc = "idle"
  /\ tree = Undef /\ markdown = Undef /\ stats = Undef

\* convertBatch has not been called
NoBatch == [files |-> <<>>, pc |-> "none", i |-> 0, results |-> <<>>, returned |-> Undef]

\* sanitizeTitle has no title to work on
NoTitle == [pc |-> "none", raw |-> <<>>, once |-> <<>>, twice |-> <<>>]

\* no StorageManager, no ShortcutRegistry, no call of retry and no Converter
\* component is in use
NoStore == [pc |-> "none"]

NoRegistry == [pc |-> "none"]

NoAttempt == [pc |-> "none"]

NoUi == [pc |-> "none"]

\* the utilities are not in use
UtilIdle ==
  /\ title = NoTitle /\ store = NoStore /\ registry = NoRegistry
  /\ attempt = NoAttempt /\ ui = NoUi

\* no entry point of the pipeline is in use
PipelineIdle ==
  /\ entry = "none" /\ file = Undef /\ calls = <<>> /\ clock = 0 /\ batch = NoBatch

ConvertIdle == PipelineIdle /\ UtilIdle

\* no converter is in use
ConverterIdle == TreeIdle /\ options = DEFAULT_OPTIONS /\ PipelineIdle

(***************************************************************************)
(* The operations of the parser, the renderers and the statistics          *)
(***************************************************************************)
InitTree ==
  /\ options \in OptionChoices
  /\ shape \in Shapes
  /\ src \in IF shape = "xml" THEN XmlTrees ELSE SrcTrees
  /\ gen \in Gens
  /\ pc = "parsed"
  /\ tree = Undef
  /\ markdown = Undef
  /\ stats = Undef
  /\ ConvertIdle

\* parser.extractTopicTree(content, options)
ExtractTopicTree ==
  /\ pc = "parsed"
  /\ tree' = extractTopicTree(ContentOf(src, shape), options, gen)
  /\ pc' = IF tree'.ok THEN "built" ELSE "failed"
  /\ UNCHANGED <<options, src, shape, gen, markdown, stats>>
  /\ UNCHANGED convertVars

\* converter.topicTreeToMarkdown(rootTopic)
TopicTreeToMarkdown ==
  /\ pc = "built"
  /\ markdown' = topicTreeToMarkdown(tree.value, options, gen.now)
  /\ pc' = "rendered"
  /\ UNCHANGED <<options, src, shape, gen, tree, stats>>
  /\ UNCHANGED convertVars

\* topicTreeToMarkdown(rootTopic) of test-local.mjs
TopicTreeToMarkdownLocal ==
  /\ pc = "built"
  /\ markdown' = topicTreeToMarkdown_local(tree.value)
  /\ pc' = "rendered_local"
  /\ UNCHANGED <<options, src, shape, gen, tree, stats>>
  /\ UNCHANGED convertVars

\* statsCalculator.calculateDetailedStats(rootTopic), no start time given
CalculateDetailedStats ==
  /\ pc \in {"built", "rendered"}
  /\ stats' = calculateDetailedStats(tree.value, 0, gen.now)
  /\ pc' = "counted"
  /\ UNCHANGED <<options, src, shape, gen, tree, markdown>>
  /\ UNCHANGED convertVars

NextTree ==
  \/ ExtractTopicTree
  \/ TopicTreeToMarkdown
  \/ TopicTreeToMarkdownLocal
  \/ CalculateDetailedStats

SpecTree == InitTree /\ [][NextTree]_vars

(***************************************************************************)
(* convert: the pipeline                                                   *)
(*                                                                         *)
(* A call goes idle -> reading (await file.arrayBuffer()) -> loading       *)
(* (await JSZip.loadAsync) -> extracting (await contentFile.async) ->      *)
(* done; everything after the last await runs in one step.  The entry      *)
(* points are convert on the shared converter (parser.ts), quickConvert    *)
(* (index.ts), which wraps the one-shot convertXmindToMarkdown of          *)
(* parser.ts, and convertXmindToMarkdown of client-converter.ts.           *)
(***************************************************************************)
MaxCalls == 2

Calls == 1..MaxCalls

Entries == {"convert", "quickConvert", "client"}

\* optionsAtCall keeps what this.options was when the call was made
IdleCall ==
  [pc |-> "idle", startTime |-> 0, opts |-> Undef, path |-> "none", xml |-> Undef,
   stage |-> "none", settled |-> "pending", result |-> Undef, optionsAtCall |-> Undef]

\* failure statistics that keep the count of the root
OneRootStats(processingTime) ==
  [totalTopics |-> 0, maxDepthReached |-> 0, rootTopics |-> 1,
   processingTime |-> processingTime, markersProcessed |-> 0,
   attachmentsProcessed |-> 0, linksProcessed |-> 0, imagesProcessed |-> 0]

\* the statistics of the catch block of convert
ZeroStats(processingTime) ==
  [totalTopics |-> 0, maxDepthReached |-> 0, rootTopics |-> 0,
   processingTime |-> processingTime, markersProcessed |-> 0,
   attachmentsProcessed |-> 0, linksProcessed |-> 0, imagesProcessed |-> 0]

\* the fileName argument: file instanceof File ? file.name : undefined
FileNameOf(f) == IF f.kind = "File" THEN JStr(f.name) ELSE Undef

UnknownXmind == <<"u", "n", "k", "n", "o", "w", "n", ".", "x", "m", "i", "n", "d">>

Unknown == <<"u", "n", "k", "n", "o", "w", "n">>

\* buildMetadata
buildMetadata(fileName, now) ==
  [sourceFile |-> IF Truthy(fileName) THEN fileName.v ELSE UnknownXmind,
   sourceFormat |-> "xmind", timestamp |-> now, version |-> "1.0.0"]

\* a thrown value that is no Error
ThrownOther == [ok |-> FALSE, error |-> <<>>, isError |-> FALSE]

\* the failure of an extraction step, with the step that failed
FailedAt(stage, thrown) ==
  [ok |-> FALSE, stage |-> stage, error |-> thrown.error, isError |-> thrown.isError]

\* the step a failed build is charged to
BuildStage(thrown) == IF thrown.error = MsgNoRootTopic THEN "root" ELSE "build"

\* return { content: markdown, stats, metadata, success: true }, unless
\* calculateDetailedStats threw
AfterStats(md, st) ==
  IF ~st.ok THEN FailedAt("stats", st)
  ELSE Returned([content |-> md, stats |-> st.value, sourceFile |-> UnknownXmind])

\* const stats = calculateDetailedStats(rootTopic, startTime), unless
\* topicTreeToMarkdown threw
AfterRender(rootTopic, md, startTime, now) ==
  IF ~md.ok THEN FailedAt("render", md)
  ELSE AfterStats(md.value, calculateDetailedStats(rootTopic, startTime, now))

\* const markdown = this.topicTreeToMarkdown(rootTopic), unless
\* extractTopicTree threw
AfterBuild(rootTopic, opts, startTime, now) ==
  IF ~rootTopic.ok THEN FailedAt(BuildStage(rootTopic), rootTopic)
  ELSE AfterRender(rootTopic.value, topicTreeToMarkdown(rootTopic.value, opts, now),
                 startTime, now)

\* const rootTopic = this.parser.extractTopicTree(parsed, this.options),
\* unless parseXML threw
AfterParse(content, opts, startTime, now, seed) ==
  IF ~content.ok THEN FailedAt("parse", content)
  ELSE AfterBuild(extractTopicTree(content.value, opts, [now |-> now, seed |-> seed]),
              opts, startTime, now)

\* the try block of convert after xmlContent is read: parse, build, render,
\* collect.  opts is this.options, now the clock, seed the random source.
Process(xml, opts, startTime, now, seed) ==
  AfterParse(parseXML(xml), opts, startTime, now, seed)

\* the try block of convertXmindToMarkdown in client-converter.ts
AfterRender_client(rootTopic, md, startTime, now) ==
  IF ~md.ok THEN FailedAt("render", md)
  ELSE Returned([content |-> md.value,
                 stats |-> calculateStats_client(rootTopic, startTime, now),
                 sourceFile |-> UnknownXmind])

AfterBuild_client(rootTopic, opts, startTime, now) ==
  IF ~rootTopic.ok THEN FailedAt(BuildStage(rootTopic), rootTopic)
  ELSE AfterRender_client(rootTopic.value,
                          topicTreeToMarkdown_client(rootTopic.value, opts, now),
                          startTime, now)

AfterParse_client(content, opts, startTime, now, seed) ==
  IF ~content.ok THEN FailedAt("parse", content)
  ELSE AfterBuild_client(extractTopicTree_client(content.value, opts,
                                                 [now |-> now, seed |-> seed]),
                         opts, startTime, now)

Process_client(xml, opts, startTime, now, seed) ==
  AfterParse_client(parseXML_client(xml), opts, startTime, now, seed)

\* a promise that rejects with what the try block threw
Uncaught(call, outcome, fileName, now) ==
  [call EXCEPT !.pc = "done", !.settled = "rejected",
               !.stage = IF outcome.ok THEN "none" ELSE outcome.stage]

\* how convert settles: the return of the try block, or the catch block
Settle(call, outcome, fileName, now) ==
  [call EXCEPT
     !.pc = "done",
     !.settled = "fulfilled",
     !.stage = IF outcome.ok THEN "none" ELSE outcome.stage,
     !.result =
       IF outcome.ok
       THEN [content |-> outcome.value.content,
             stats |-> outcome.value.stats,
             metadata |-> buildMetadata(fileName, now),
             success |-> TRUE]
       ELSE [content |-> <<>>,
             stats |-> ZeroStats(now - call.startTime),
             metadata |-> [sourceFile |-> IF Truthy(fileName) THEN fileName.v ELSE Unknown,
                           sourceFormat |-> "xmind", timestamp |-> now,
                           version |-> "1.0.0"],
             success |-> FALSE,
             error |-> IF outcome.isError THEN outcome.error ELSE MsgUnknown]]

\* quickConvert: throws when the result is not a success
quickConvert(call) ==
  IF call.result.success THEN call
  ELSE [call EXCEPT !.settled = "rejected"]

\* the call after its promise settled, as the entry point hands it on
Finish(call, outcome) ==
  LET settled == Settle(call, outcome, FileNameOf(file), clock)
  IN IF entry = "quickConvert" /\ settled.settled = "fulfilled" THEN quickConvert(settled)
     ELSE settled

ContentPathsOf(e) == IF e = "client" THEN contentPaths_client ELSE contentPaths

Init ==
  /\ TreeIdle
  /\ options \in {DEFAULT_OPTIONS, [DEFAULT_OPTIONS EXCEPT !.includeMetadata = TRUE]}
  /\ entry \in Entries
  /\ file \in Files
  /\ calls = [c \in Calls |-> IdleCall]
  /\ clock = 1
  /\ batch = NoBatch
  /\ UtilIdle

\* the call starts: startTime is read, options are merged, the first await
Convert(c) ==
  /\ calls[c].pc = "idle"
  /\ \E partial \in PartialChoices :
       calls' = [calls EXCEPT ![c] =
                  [@ EXCEPT !.pc = IF file.kind = "File" THEN "reading" ELSE "loading",
                            !.startTime = clock,
                            !.optionsAtCall = options,
                            !.opts = CASE entry = "convert" -> Undef
                                       [] entry = "quickConvert" -> Merge(DEFAULT_OPTIONS, partial)
                                       [] OTHER -> Merge(ClientDefaults, partial)]]
  /\ UNCHANGED <<options, entry, file, clock, batch, utilVars>>
  /\ UNCHANGED <<src, shape, gen, pc, tree, markdown, stats>>

\* file.arrayBuffer() settles
ArrayBufferDone(c) ==
  /\ calls[c].pc = "reading"
  /\ calls' = [calls EXCEPT ![c] =
                 CASE file.read = "ok" -> [@ EXCEPT !.pc = "loading"]
                   [] file.read = "error" -> Finish(@, FailedAt("read", Thrown(MsgNotReadable)))
                   [] OTHER -> Finish(@, FailedAt("read", ThrownOther))]
  /\ UNCHANGED <<options, entry, file, clock, batch, utilVars>>
  /\ UNCHANGED <<src, shape, gen, pc, tree, markdown, stats>>

\* JSZip.loadAsync settles; the content paths are tried in order
LoadAsyncDone(c) ==
  /\ calls[c].pc = "loading"
  /\ LET path == FirstMatch(ContentPathsOf(entry), file.entries)
     IN calls' = [calls EXCEPT ![c] =
                   IF ~file.zip THEN Finish(@, FailedAt("open", Thrown(MsgNotZip)))
                   ELSE IF path = "none" THEN Finish(@, FailedAt("locate", Thrown(MsgNoContent)))
                   ELSE [@ EXCEPT !.pc = "extracting", !.path = path]]
  /\ UNCHANGED <<options, entry, file, clock, batch, utilVars>>
  /\ UNCHANGED <<src, shape, gen, pc, tree, markdown, stats>>

\* contentFile.async('string') settles; the rest of the try block runs
EntryDone(c) ==
  /\ calls[c].pc = "extracting"
  /\ \E seed \in RandomSeeds :
       LET call == calls[c]
           xml == file.entries[call.path]
           opts == IF entry = "convert" THEN options ELSE call.opts
           read == [call EXCEPT !.xml = xml, !.opts = opts]
       IN IF call.path \in file.bad
          THEN calls' = [calls EXCEPT ![c] =
                           Finish(call, FailedAt("extract", Thrown(MsgCorrupt)))]
          ELSE \E outcome \in {IF entry = "client"
                                THEN Process_client(xml, opts, call.startTime, clock, seed)
                                ELSE Process(xml, opts, call.startTime, clock, seed)} :
                 calls' = [calls EXCEPT ![c] = Finish(read, outcome)]
  /\ UNCHANGED <<options, entry, file, clock, batch, utilVars>>
  /\ UNCHANGED <<src, shape, gen, pc, tree, markdown, stats>>

\* converter.setOptions(partial)
SetOptions ==
  /\ entry = "convert"
  /\ \E partial \in PartialChoices : options' = Merge(options, partial)
  /\ options' # options
  /\ UNCHANGED <<entry, file, calls, clock, batch, utilVars>>
  /\ UNCHANGED <<src, shape, gen, pc, tree, markdown, stats>>

\* time passes
Tick ==
  /\ clock < MaxClock
  /\ clock' = clock + 1
  /\ UNCHANGED <<options, entry, file, calls, batch, utilVars>>
  /\ UNCHANGED <<src, shape, gen, pc, tree, markdown, stats>>

Next ==
  \/ \E c \in Calls : Convert(c)
  \/ \E c \in Calls : ArrayBufferDone(c)
  \/ \E c \in Calls : LoadAsyncDone(c)
  \/ \E c \in Calls : EntryDone(c)
  \/ SetOptions
  \/ Tick

Spec == Init /\ [][Next]_vars

(***************************************************************************)
(* convertBatch: one call of it on a converter nothing else is using.      *)
(* calls[1] is the convert call its loop is waiting for and file the       *)
(* argument of that call.                                                  *)
(***************************************************************************)
MaxBatch == 2

\* the files of a batch: buffers and File objects, convertible or not
BatchFiles ==
  {Archive(OneEntry("doc")),
   Archive([path \in {} |-> Payload("doc", path)]),
   Archive(OneEntry("unclosed")),
   [Archive(OneEntry("doc")) EXCEPT !.kind = "File", !.name = <<"m", ".", "x">>],
   [Archive(OneEntry("doc")) EXCEPT !.kind = "File", !.name = <<"m", ".", "x">>,
                                    !.read = "error"]}

BatchInputs == UNION {[1..n -> BatchFiles] : n \in 0..MaxBatch}

\* results.push(result), with the results in the reverse order
Unshift(results, result) == <<result>> \o results

\* results.push(result)
Push(results, result) == Append(results, result)

\* this.convert(file, fileName) up to its first await
StartConvert(f, now) ==
  [IdleCall EXCEPT !.pc = IF f.kind = "File" THEN "reading" ELSE "loading",
                   !.startTime = now]

InitBatch ==
  /\ TreeIdle
  /\ options \in {DEFAULT_OPTIONS, [DEFAULT_OPTIONS EXCEPT !.includeMetadata = TRUE]}
  /\ entry = "convert"
  /\ file = Undef
  /\ calls = [c \in Calls |-> IdleCall]
  /\ clock = 1
  /\ \E files \in BatchInputs : batch = [NoBatch EXCEPT !.files = files, !.pc = "idle"]
  /\ UtilIdle

\* convertBatch(files) is called: the loop reaches its first await, or
\* returns at once when there is no file
ConvertBatch ==
  /\ batch.pc = "idle"
  /\ IF batch.files = <<>>
     THEN /\ batch' = [batch EXCEPT !.pc = "done", !.returned = batch.results]
          /\ UNCHANGED <<file, calls>>
     ELSE /\ batch' = [batch EXCEPT !.pc = "awaiting", !.i = 1]
          /\ file' = batch.files[1]
          /\ calls' = [calls EXCEPT ![1] = StartConvert(batch.files[1], clock)]
  /\ UNCHANGED <<options, entry, clock, utilVars>>
  /\ UNCHANGED <<src, shape, gen, pc, tree, markdown, stats>>

\* await this.convert(...) resumes: the result is pushed and the loop goes
\* on to the next file, or returns the results
ConvertBatchResume ==
  /\ batch.pc = "awaiting"
  /\ calls[1].pc = "done"
  /\ LET results == Push(batch.results, calls[1].result)
     IN IF batch.i < Len(batch.files)
        THEN /\ batch' = [batch EXCEPT !.results = results, !.i = batch.i + 1]
             /\ file' = batch.files[batch.i + 1]
             /\ calls' = [calls EXCEPT ![1] = StartConvert(batch.files[batch.i + 1], clock)]
        ELSE /\ batch' = [batch EXCEPT !.results = results, !.pc = "done",
                                       !.returned = results]
             /\ UNCHANGED <<file, calls>>
  /\ UNCHANGED <<options, entry, clock, utilVars>>
  /\ UNCHANGED <<src, shape, gen, pc, tree, markdown, stats>>

NextBatch ==
  \/ ConvertBatch
  \/ \E c \in Calls : ArrayBufferDone(c)
  \/ \E c \in Calls : LoadAsyncDone(c)
  \/ \E c \in Calls : EntryDone(c)
  \/ ConvertBatchResume
  \/ Tick

SpecBatch == InitBatch /\ [][NextBatch]_vars

(***************************************************************************)
(* sanitizeTitle, applied to a title and then to its own result            *)
(***************************************************************************)
MaxTitle == 4

TitleChars == {" ", "\n", "A", "<", ">"}

\* all titles of at most MaxTitle characters, and the title of the example
Titles == UNION {[1..n -> TitleChars] : n \in 0..MaxTitle} \cup {MessyTitle}

InitTitle ==
  /\ ConverterIdle
  /\ \E raw \in Titles : title = [NoTitle EXCEPT !.pc = "raw", !.raw = raw]
  /\ store = NoStore /\ registry = NoRegistry /\ attempt = NoAttempt /\ ui = NoUi

\* sanitizeTitle(title)
SanitizeTitle ==
  /\ title.pc = "raw"
  /\ title' = [title EXCEPT !.pc = "once", !.once = sanitizeTitle(title.raw)]
  /\ UNCHANGED <<converterVars, store, registry, attempt, ui>>

\* sanitizeTitle applied to what it returned
SanitizeTitleAgain ==
  /\ title.pc = "once"
  /\ title' = [title EXCEPT !.pc = "twice", !.twice = sanitizeTitle(title.once)]
  /\ UNCHANGED <<converterVars, store, registry, attempt, ui>>

NextTitle == SanitizeTitle \/ SanitizeTitleAgain

SpecTitle == InitTitle /\ [][NextTitle]_vars

(***************************************************************************)
(* StorageManager (src/lib/storage.ts).  A history item is                 *)
(* [id, createdAt, lastAccessed, size], its times in clock ticks and its    *)
(* size the room its JSON text takes; the value under the storage key is   *)
(* the sequence of the items, empty when the key is absent.                *)
(* localStorage.setItem throws when the items do not fit the quota cap.    *)
(***************************************************************************)
MaxItems == 2

TTL == 2

MaxStoreClock == 2

MaxNano == 2

\* the sizes of the items that add is given
ItemSizes == {1, 3}

\* the quotas of localStorage: none, or room for MaxItems small items and more
Quotas == {0} \cup (MaxItems..(2 * MaxItems))

HistoryItem(id, createdAt, lastAccessed, size) ==
  [id |-> id, createdAt |-> createdAt, lastAccessed |-> lastAccessed, size |-> size]

RECURSIVE Weight(_)
\* the room a list of items takes
Weight(items) == IF items = <<>> THEN 0 ELSE Head(items).size + Weight(Tail(items))

\* localStorage.setItem does not throw
Fits(items, cap) == Weight(items) <= cap

\* nanoid(): the k-th id it hands out
nanoid(k) == <<"n">> \o NatToStr(k)

\* items.slice(0, n)
Slice(items, n) == SubSeq(items, 1, IF n < Len(items) THEN n ELSE Len(items))

\* items.sort by lastAccessed, most recent first; the sort is stable
SortByLastAccessed(items) ==
  LET Rank(i) == Cardinality({j \in DOMAIN items :
                                \/ items[j].lastAccessed > items[i].lastAccessed
                                \/ items[j].lastAccessed = items[i].lastAccessed /\ j < i})
  IN [k \in DOMAIN items |-> items[CHOOSE i \in DOMAIN items : Rank(i) = k - 1]]

\* a save that gives up at once when the items do not fit
save_orClear(items, cap) == IF Fits(items, cap) THEN items ELSE <<>>

\* _save: what is stored afterwards
save(items, cap) ==
  IF Fits(items, cap) THEN items
  ELSE IF Fits(Slice(items, Len(items) \div 2), cap) THEN Slice(items, Len(items) \div 2)
  ELSE <<>>

\* the items that are not expired at now
Unexpired(items, now) == SelectSeq(items, LAMBDA item : now - item.createdAt < TTL)

\* a reader that keeps expired items
getAll_keeping(data, now, cap) == [data |-> data, ret |-> SortByLastAccessed(data)]

\* getAll: what it returns and what is stored afterwards
getAll(data, now, cap) ==
  [data |-> IF Len(Unexpired(data, now)) # Len(data)
            THEN save(Unexpired(data, now), cap) ELSE data,
   ret |-> SortByLastAccessed(Unexpired(data, now))]

\* add an item of a size; nanoid gives it the id
add(data, now, cap, id, size) ==
  [data |-> save(Slice(<<HistoryItem(id, now, now, size)>> \o getAll(data, now, cap).ret,
                       MaxItems), cap),
   ret |-> HistoryItem(id, now, now, size)]

\* the positions of the items with an id
IndexOf(items, id) == {i \in DOMAIN items : items[i].id = id}

\* update with no field to change: only lastAccessed is renewed
update(data, now, cap, id) ==
  LET all == getAll(data, now, cap)
      index == IF IndexOf(all.ret, id) = {} THEN 0
               ELSE CHOOSE i \in IndexOf(all.ret, id) : \A j \in IndexOf(all.ret, id) : i <= j
  IN IF index = 0 THEN [data |-> all.data, ret |-> FALSE]
     ELSE [data |-> save([all.ret EXCEPT ![index].lastAccessed = now], cap), ret |-> TRUE]

delete(data, now, cap, id) ==
  LET all == getAll(data, now, cap)
      filtered == SelectSeq(all.ret, LAMBDA item : item.id # id)
  IN IF Len(filtered) = Len(all.ret) THEN [data |-> all.data, ret |-> FALSE]
     ELSE [data |-> save(filtered, cap), ret |-> TRUE]

cleanup(data, now, cap) ==
  LET all == getAll(data, now, cap)
  IN IF Len(all.ret) > MaxItems
     THEN [data |-> save(Slice(all.ret, MaxItems), cap), ret |-> TRUE]
     ELSE [data |-> all.data, ret |-> FALSE]

\* Array.from(new Map(combined.map(item => [item.id, item])).values()): a key
\* stays where it was first set and holds the value that was set last
UniqueById(combined) ==
  LET firsts == SelectSeq([i \in DOMAIN combined |-> i],
                          LAMBDA i : \A j \in 1..(i - 1) : combined[j].id # combined[i].id)
      Last(id) == CHOOSE i \in IndexOf(combined, id) : \A j \in IndexOf(combined, id) : j <= i
  IN [k \in DOMAIN firsts |-> combined[Last(combined[firsts[k]].id)]]

\* a deduplication that keeps, for each id, the most recently accessed item
UniqueNewest(combined) ==
  LET firsts == SelectSeq([i \in DOMAIN combined |-> i],
                          LAMBDA i : \A j \in 1..(i - 1) : combined[j].id # combined[i].id)
      Newest(id) == CHOOSE i \in IndexOf(combined, id) :
                      \A j \in IndexOf(combined, id) :
                        combined[j].lastAccessed <= combined[i].lastAccessed
  IN [k \in DOMAIN firsts |-> combined[Newest(combined[firsts[k]].id)]]

\* import of JSON text; json.array tells whether the text is an array
import(data, now, cap, json, merge) ==
  IF ~json.array THEN [data |-> data, ret |-> 0]
  ELSE LET existing == IF merge THEN getAll(data, now, cap).ret ELSE <<>>
           sorted == SortByLastAccessed(UniqueById(json.items \o existing))
       IN [data |-> save(Slice(sorted, MaxItems), cap), ret |-> Len(json.items)]

\* the JSON texts given to import
Imports ==
  {[array |-> FALSE, items |-> <<>>]}
  \cup {[array |-> TRUE, items |-> items] :
          items \in {<<>>,
                     <<HistoryItem(<<"x">>, 0, 0, 1)>>,
                     <<HistoryItem(<<"x">>, 0, 0, 1), HistoryItem(<<"x">>, 1, 2, 1)>>,
                     <<HistoryItem(<<"x">>, 1, 2, 1), HistoryItem(<<"x">>, 0, 0, 1)>>,
                     <<HistoryItem(nanoid(1), 1, 2, 1)>>,
                     <<HistoryItem(<<"x">>, 0, 0, 1), HistoryItem(<<"y">>, 1, 1, 1),
                       HistoryItem(<<"z">>, 2, 2, 1)>>}}

StoreIds == {nanoid(k) : k \in 1..MaxNano} \cup {<<"x">>}

\* the record of a call: its name, its argument, what was stored before it
\* and what it returned
Called(name, arg, result) ==
  [store EXCEPT !.data = result.data,
                !.last = [name |-> name, arg |-> arg, before |-> store.data,
                          now |-> store.now, ret |-> result.ret]]

InitStorage ==
  /\ ConverterIdle
  /\ title = NoTitle /\ registry = NoRegistry /\ attempt = NoAttempt /\ ui = NoUi
  /\ \E cap \in Quotas :
       store = [pc |-> "ready", data |-> <<>>, cap |-> cap, now |-> 0, nano |-> 0,
                last |-> [name |-> "none"]]

GetAll ==
  /\ store.pc = "ready"
  /\ store' = Called("getAll", <<>>, getAll(store.data, store.now, store.cap))
  /\ UNCHANGED <<converterVars, title, registry, attempt, ui>>

Add ==
  /\ store.pc = "ready"
  /\ store.nano < MaxNano
  /\ \E size \in ItemSizes :
       store' = [Called("add", size, add(store.data, store.now, store.cap,
                                         nanoid(store.nano + 1), size))
                   EXCEPT !.nano = store.nano + 1]
  /\ UNCHANGED <<converterVars, title, registry, attempt, ui>>

Update ==
  /\ store.pc = "ready"
  /\ \E id \in StoreIds :
       store' = Called("update", id, update(store.data, store.now, store.cap, id))
  /\ UNCHANGED <<converterVars, title, registry, attempt, ui>>

Delete ==
  /\ store.pc = "ready"
  /\ \E id \in StoreIds :
       store' = Called("delete", id, delete(store.data, store.now, store.cap, id))
  /\ UNCHANGED <<converterVars, title, registry, attempt, ui>>

Cleanup ==
  /\ store.pc = "ready"
  /\ store' = Called("cleanup", <<>>, cleanup(store.data, store.now, store.cap))
  /\ UNCHANGED <<converterVars, title, registry, attempt, ui>>

Import ==
  /\ store.pc = "ready"
  /\ \E json \in Imports, merge \in BOOLEAN :
       store' = Called("import", [json |-> json, merge |-> merge],
                       import(store.data, store.now, store.cap, json, merge))
  /\ UNCHANGED <<converterVars, title, registry, attempt, ui>>

\* time passes
StoreTick ==
  /\ store.pc = "ready"
  /\ store.now < MaxStoreClock
  /\ store' = [store EXCEPT !.now = store.now + 1]
  /\ UNCHANGED <<converterVars, title, registry, attempt, ui>>

NextStorage == GetAll \/ Add \/ Update \/ Delete \/ Cleanup \/ Import \/ StoreTick

SpecStorage == InitStorage /\ [][NextStorage]_vars

(***************************************************************************)
(* Properties of the builder and the renderers                              *)
(***************************************************************************)
Built == pc \in {"built", "rendered", "rendered_local", "counted"}

Rendered == pc \in {"rendered", "rendered_local"} /\ markdown.ok

Lines(md) == Split(md, "\n")

RECURSIVE Levelled(_, _, _)
Levelled(t, level, parentId) ==
  /\ t.level = level
  /\ t.parentId = parentId
  /\ \A i \in DOMAIN t.children : Levelled(t.children[i], level + 1, t.id)

\* C1: in every tree extractTopicTree returns, the root has level 0 and no
\* parentId, and every other topic has its parent's level + 1 and its
\* parent's id as parentId, at every depth.
C1_LevelsAndParents == Built => Levelled(tree.value, 0, Undef)

\* a returned tree with a grandchild of the root
C1_Witness ==
  /\ Built
  /\ \E i \in DOMAIN tree.value.children : tree.value.children[i].children # <<>>

\* C2: the first line of the rendered Markdown is "# " followed by the
\* sanitized root title, and no other line starts with "# ".
C2_SingleTopHeading ==
  Rendered =>
    LET lines == Lines(markdown.value)
    IN /\ lines[1] = <<"#", " ">> \o sanitizeTitle(tree.value.title.v)
       /\ \A i \in 2..Len(lines) : ~StartsWith(lines[i], <<"#", " ">>)

\* the built root has the children of the source topic, in document order
SameChildren(t, s) ==
  /\ Len(t.children) = Len(s.kids)
  /\ \A i \in DOMAIN s.kids :
       s.kids[i].id # <<>> => t.children[i].id = JStr(s.kids[i].id)

\* C4: a topic element with k child topic elements is built with exactly k
\* children in document order, in each tolerated shape of the container:
\* absent, empty sequence, double-nested sequence, wrapper entries.
C4_ChildrenInEveryShape ==
  Built /\ shape \in {"seq", "empty", "double", "wrapped"}
    => SameChildren(tree.value, src)

\* C5: a single child topic given as a bare element and the same child given
\* as a one-element sequence build identical trees.
C5_BareEqualsSequence ==
  pc # "parsed" /\ shape = "bare"
    => tree = extractTopicTree(ContentOf(src, "seq"), options, gen)

\* a tree built from a document whose root has its one child as a bare element
C5_Witness ==
  /\ Built /\ shape = "bare"
  /\ Len(src.kids) = 1
  /\ ContentOf(src, "bare") # ContentOf(src, "seq")
  /\ Len(tree.value.children) = 1

\* C6: Root with one child Child carrying the red flag renders as exactly
\* the four lines "# Root", "", "## <flag> Child", "".
C6_RootChildRendering ==
  Rendered /\ src = RootChildDoc /\ shape = "seq"
    => Lines(markdown.value) =
         << <<"#", " ", "R", "o", "o", "t">>,
            <<>>,
            <<"#", "#", " ", "U+1F6A9", " ", "C", "h", "i", "l", "d">>,
            <<>> >>

(***************************************************************************)
(* Properties of convert                                                    *)
(***************************************************************************)
Done(c) == calls[c].pc = "done"

Returned2(c) == Done(c) /\ calls[c].result # Undef

Contains(s, sub) == \E i \in 1..(Len(s) - Len(sub) + 1) : SubSeq(s, i, i + Len(sub) - 1) = sub

Counts(st) == [f \in DOMAIN st \ {"processingTime"} |-> st[f]]

GeneratedPrefix == <<"G", "e", "n", "e", "r", "a", "t", "e", "d", ":", " ">>

\* the content without the line that carries the generation timestamp
Undated(content) ==
  SelectSeq(Lines(content), LAMBDA line : ~StartsWith(line, GeneratedPrefix))

SameInput(c, d) == Returned2(c) /\ Returned2(d) /\ calls[c].opts = calls[d].opts

\* C3 as stated: two runs of convert on the same file with the same options
\* give byte-identical content, and stats that are identical apart from the
\* processing duration.
C3_ByteIdenticalContent ==
  \A c, d \in Calls :
    SameInput(c, d) =>
      /\ calls[c].result.content = calls[d].result.content
      /\ Counts(calls[c].result.stats) = Counts(calls[d].result.stats)

\* C3, amended: two runs of convert on the same file with the same options
\* give the same success flag, stats that are identical apart from the
\* processing duration, and content that is identical apart from the
\* Generated line of the metadata block; without includeMetadata the content
\* is byte-identical.
C3_IdenticalApartFromTimestamp ==
  \A c, d \in Calls :
    SameInput(c, d) =>
      /\ calls[c].result.success = calls[d].result.success
      /\ Counts(calls[c].result.stats) = Counts(calls[d].result.stats)
      /\ Undated(calls[c].result.content) = Undated(calls[d].result.content)
      /\ (calls[c].result.success /\ ~calls[c].opts.includeMetadata)
           => calls[c].result.content = calls[d].result.content

\* two successful runs with the same options, finished at different times
C3_Witness ==
  /\ SameInput(1, 2)
  /\ calls[1].result.success /\ calls[2].result.success
  /\ calls[1].result.metadata.timestamp # calls[2].result.metadata.timestamp
  /\ calls[1].result.stats.processingTime # calls[2].result.stats.processingTime

\* C7: convert and convertXmindToMarkdown never reject: every call ends in a
\* returned ConversionResult, and a failure of any step (read, open,
\* locate, extract, parse, root, build, render, stats) ends in a result with
\* success = false and a non-empty error message.
C7_NeverRejects ==
  \A c \in Calls :
    Done(c) =>
      /\ calls[c].result # Undef
      /\ entry # "quickConvert" => calls[c].settled = "fulfilled"
      /\ IF calls[c].result = Undef THEN FALSE
         ELSE IF calls[c].stage = "none" THEN calls[c].result.success
         ELSE ~calls[c].result.success /\ calls[c].result.error # <<>>

\* a call of convert that failed at a step other than the missing root topic
\* and returned a failed result
C7_Witness ==
  \E c \in Calls :
    /\ Done(c) /\ entry = "convert"
    /\ calls[c].stage \in {"read", "open", "locate", "extract", "parse"}
    /\ calls[c].settled = "fulfilled"
    /\ ~calls[c].result.success

\* C8 as stated: error is present iff success is false, and a failed result
\* has empty content and every field of stats equal to zero.
C8_AllStatsZero ==
  \A c \in Calls :
    Returned2(c) =>
      LET r == calls[c].result
      IN /\ ("error" \in DOMAIN r) <=> ~r.success
         /\ ~r.success => r.content = <<>> /\ \A f \in DOMAIN r.stats : r.stats[f] = 0

\* C8, amended: error is present iff success is false, and a failed result
\* has empty content, every count of stats equal to zero, and processingTime
\* equal to the time that passed since the call started.
C8_CountsZero ==
  \A c \in Calls :
    Returned2(c) =>
      LET r == calls[c].result
      IN /\ ("error" \in DOMAIN r) <=> ~r.success
         /\ ~r.success =>
              /\ r.content = <<>>
              /\ \A f \in DOMAIN r.stats \ {"processingTime"} : r.stats[f] = 0
              /\ r.stats.processingTime = r.metadata.timestamp - calls[c].startTime

\* a failed result whose processingTime is not zero
C8_Witness ==
  \E c \in Calls :
    /\ Returned2(c)
    /\ ~calls[c].result.success
    /\ calls[c].result.stats.processingTime > 0

\* the payload has no root topic element
NoRootTopic(xml) == xml # Undef /\ xml.kind \in {"noroot", "empty"}

\* C9: a document without a root topic element makes convert return
\* success = false, an error containing "root topic" and empty content.
C9_NoRootTopic ==
  \A c \in Calls :
    Done(c) /\ NoRootTopic(calls[c].xml) =>
      /\ calls[c].result # Undef
      /\ IF calls[c].result = Undef THEN FALSE
         ELSE /\ ~calls[c].result.success
              /\ Contains(calls[c].result.error, <<"r", "o", "o", "t", " ", "t", "o", "p", "i", "c">>)
              /\ calls[c].result.content = <<>>

\* convert has returned for a sheet that holds no topic
C9_Witness ==
  \E c \in Calls :
    /\ Returned2(c) /\ entry = "convert"
    /\ calls[c].xml # Undef /\ calls[c].xml.kind = "noroot"
    /\ calls[c].stage = "root"

\* C10: the payload used is the entry at the earliest path present, in the
\* order content/content.xml, content.xml, src/content.xml,
\* META-INF/content.xml.
C10_EarliestPathWins ==
  \A c \in Calls :
    calls[c].path # "none" =>
      LET first == FirstMatch(<<"content/content.xml", "content.xml", "src/content.xml",
                                "META-INF/content.xml">>, file.entries)
      IN /\ calls[c].path = first
         /\ calls[c].xml # Undef => calls[c].xml = file.entries[first]

(***************************************************************************)
(* Properties of the archive, the batch and the converter's options        *)
(***************************************************************************)
\* the archive opened, and none of the paths any build looks at is in it
NoContentPath == file.zip /\ file.read = "ok" /\ DOMAIN file.entries \cap AllPaths = {}

\* C11: an archive with no entry at any recognized content path makes
\* convert return success = false with an error that mentions "content.xml".
C11_NoContentEntry ==
  \A c \in Calls :
    Done(c) /\ NoContentPath =>
      /\ calls[c].result # Undef
      /\ IF calls[c].result = Undef THEN FALSE
         ELSE /\ ~calls[c].result.success
              /\ Contains(calls[c].result.error,
                          <<"c", "o", "n", "t", "e", "n", "t", ".", "x", "m", "l">>)

\* convert has returned for an archive without a content entry
C11_Witness ==
  \E c \in Calls :
    /\ Returned2(c) /\ entry = "convert" /\ NoContentPath
    /\ calls[c].stage = "locate"
    /\ calls[c].path = "none"

\* what convert returns for file f alone, called at startTime and finished
\* at now with the options opts in effect
ConvertAlone(f, opts, startTime, now, seed) ==
  LET path == FirstMatch(contentPaths, f.entries)
      outcome ==
        IF f.kind = "File" /\ f.read # "ok"
        THEN FailedAt("read", IF f.read = "error" THEN Thrown(MsgNotReadable) ELSE ThrownOther)
        ELSE IF ~f.zip THEN FailedAt("open", Thrown(MsgNotZip))
        ELSE IF path = "none" THEN FailedAt("locate", Thrown(MsgNoContent))
        ELSE IF path \in f.bad THEN FailedAt("extract", Thrown(MsgCorrupt))
        ELSE Process(f.entries[path], opts, startTime, now, seed)
  IN Settle([IdleCall EXCEPT !.startTime = startTime], outcome, FileNameOf(f), now).result

\* the moment a result was built, and the moment its call had started
BuiltAt(result) == result.metadata.timestamp

StartedAt(result) == result.metadata.timestamp - result.stats.processingTime

\* at most one conversion of the batch is in progress, that of file i, and
\* the results so far are those of the files before it
OneAtATime ==
  /\ \A c \in Calls : c # 1 => calls[c] = IdleCall
  /\ batch.pc = "awaiting" =>
       /\ file = batch.files[batch.i]
       /\ Len(batch.results) = batch.i - 1

\* C12: convertBatch over n files returns exactly n results, result i being
\* the conversion of file i, in input order; a failed conversion is a failed
\* result at its position and changes nothing for the files after it.
C12_BatchInInputOrder ==
  /\ OneAtATime
  /\ batch.pc = "done" =>
    /\ Len(batch.returned) = Len(batch.files)
    /\ \A i \in 1..Len(batch.files) :
         LET result == batch.returned[i]
         IN \E seed \in RandomSeeds :
              result = ConvertAlone(batch.files[i], options, StartedAt(result),
                                    BuiltAt(result), seed)

\* a finished batch of two different files, the first of which failed and
\* the second of which was converted
C12_Witness ==
  /\ batch.pc = "done"
  /\ Len(batch.files) = 2
  /\ batch.files[1] # batch.files[2]
  /\ ~batch.returned[1].success
  /\ batch.returned[2].success
  /\ batch.returned[2].metadata.sourceFile = <<"m", ".", "x">>

\* C13: whatever the interleaving of convert calls and setOptions calls on
\* one converter, the content and the counts of each call's result are those
\* the call produces alone with the options in effect when it was called.
C13_OptionsAtCallTime ==
  \A c \in Calls :
    Returned2(c) /\ entry = "convert" =>
      LET result == calls[c].result
      IN \E seed \in RandomSeeds :
           LET alone == ConvertAlone(file, calls[c].optionsAtCall, StartedAt(result),
                                     BuiltAt(result), seed)
           IN /\ result.success = alone.success
              /\ result.content = alone.content
              /\ Counts(result.stats) = Counts(alone.stats)

(***************************************************************************)
(* Properties of the markers, the statistics and the ids                    *)
(***************************************************************************)
\* the ids of the marker tables of the two builds
KnownMarkers(build) ==
  IF build = "lib" THEN {e[1] : e \in DEFAULT_MARKERS} ELSE {e[1] : e \in MARKER_MAP_local}

\* the markers a build gives the root topic of the document
RootMarkers(build) ==
  IF build = "lib" THEN tree.value.markers
  ELSE extractMarkers_local(EncodeTopic(src, shape))

\* the marker references of the root topic that carry an identifier
MarkerIds == SelectSeq(src.markers, LAMBDA id : id # <<>>)

\* C14: a marker reference whose id is in no marker table never throws and
\* is never dropped: it becomes "[id]" at its position, so a topic has as
\* many markers as it has marker references with an identifier.
C14_UnknownMarkerFallback ==
  Built /\ shape # "xml" =>
    /\ tree.ok
    /\ \A build \in {"lib", "local"} :
         /\ Len(RootMarkers(build)) = Len(MarkerIds)
         /\ \A i \in 1..Len(MarkerIds) :
              /\ i <= Len(RootMarkers(build))
              /\ MarkerIds[i] \notin KnownMarkers(build)
              => RootMarkers(build)[i] = <<"[">> \o MarkerIds[i] \o <<"]">>

\* the statistics of the built tree have been collected
Counted == pc = "counted" /\ stats.ok

\* the tree was rendered with its metadata block before it was counted
CountedWithMetadata ==
  /\ Counted
  /\ markdown # Undef
  /\ markdown.ok
  /\ options.includeMetadata

\* the positions of the topics of a tree, as paths of child indices
RECURSIVE Paths(_)
Paths(t) ==
  {<<>>} \cup UNION {{<<i>> \o p : p \in Paths(t.children[i])} : i \in DOMAIN t.children}

RECURSIVE TopicAt(_, _)
TopicAt(t, path) == IF path = <<>> THEN t ELSE TopicAt(t.children[Head(path)], Tail(path))

\* line n of the metadata block, which follows the heading and a blank line
MetadataLine(n) == Lines(markdown.value)[2 + n]

\* C15: stats.totalTopics is the number of topics of the tree, the root and
\* every descendant counted once, and is the count the metadata block of the
\* Markdown gives after "Topics:".
C15_TotalTopics ==
  /\ Counted => stats.value.totalTopics = Cardinality(Paths(tree.value))
  /\ CountedWithMetadata =>
       MetadataLine(3) = <<"T", "o", "p", "i", "c", "s", ":", " ">>
                           \o NatToStr(stats.value.totalTopics)

\* a counted tree of three levels below the root, rendered with metadata
C15_Witness ==
  /\ CountedWithMetadata
  /\ \E path \in Paths(tree.value) : Len(path) = 3
  /\ stats.value.totalTopics > 4

\* C16: stats.rootTopics is the number of direct children of the root topic,
\* 0 for a root without children.
C16_RootTopicsAreChildren ==
  Counted => stats.value.rootTopics = Len(tree.value.children)

\* C17: the "Max Depth" of the metadata block equals stats.maxDepthReached,
\* and both are the greatest level of any topic of the tree.
C17_MaxDepth ==
  /\ Counted =>
       /\ \A path \in Paths(tree.value) :
            TopicAt(tree.value, path).level <= stats.value.maxDepthReached
       /\ \E path \in Paths(tree.value) :
            TopicAt(tree.value, path).level = stats.value.maxDepthReached
  /\ CountedWithMetadata =>
       MetadataLine(4) = <<"M", "a", "x", " ", "D", "e", "p", "t", "h", ":", " ">>
                           \o NatToStr(stats.value.maxDepthReached)

\* a counted tree, rendered with metadata, whose first branch is shallower
\* than its last
C17_Witness ==
  /\ CountedWithMetadata
  /\ Len(tree.value.children) = 2
  /\ tree.value.children[1].children = <<>>
  /\ tree.value.children[2].children # <<>>
  /\ stats.value.maxDepthReached >= 2

\* two ids are the same JavaScript value
SameId(a, b) == a.t = b.t /\ a.v = b.v

\* C18: within one converted document the ids of the topics are pairwise
\* distinct, whether taken from the source or synthesized.
C18_DistinctIds ==
  Built =>
    \A p, q \in Paths(tree.value) :
      p # q => ~SameId(TopicAt(tree.value, p).id, TopicAt(tree.value, q).id)

(***************************************************************************)
(* Properties of the rendered lines                                         *)
(***************************************************************************)
\* the title as the renderers print it: the first marker, then the text
PrintedTitle(topic) == FirstMarker(topic) \o sanitizeTitle(topic.title.v)

\* the text without one trailing colon, full-width or half-width
StripColon(text) ==
  IF text # <<>> /\ text[Len(text)] \in {"U+FF1A", ":"}
  THEN SubSeq(text, 1, Len(text) - 1) ELSE text

\* the bullet line of a topic at a rendering depth of 4 or more
BulletLine(topic, depth) ==
  Repeat(<<" ", " ">>, depth - 4) \o <<"-", " ">>
    \o (IF topic.children # <<>> THEN StripColon(PrintedTitle(topic)) \o <<":">>
        ELSE PrintedTitle(topic))

\* the lines of the rendered Markdown, as a set
LineSet == {Lines(markdown.value)[i] : i \in DOMAIN Lines(markdown.value)}

\* C19: a topic at rendering depth 4 or more is a bullet line of
\* 2 * (depth - 4) spaces, "- " and the title, never a "#" heading; with
\* children one ":" follows the title, stripped of a trailing colon first.
C19_BulletsFromDepthFour ==
  Rendered =>
    /\ \A line \in LineSet : ~StartsWith(line, <<"#", "#", "#", "#">>)
    /\ \A path \in Paths(tree.value) :
         Len(path) >= 3 =>
           BulletLine(TopicAt(tree.value, path), Len(path) + 1) \in LineSet

\* the topics of the built tree at a level
TopicsAt(level) == {TopicAt(tree.value, path) : path \in {p \in Paths(tree.value) : Len(p) = level}}

\* line i of the Markdown is followed by a blank line
BlankAfter(i) ==
  i < Len(Lines(markdown.value)) /\ Lines(markdown.value)[i + 1] = <<>>

\* the lines that are the heading of a topic, with the marks of its depth
HeadingLinesOf(topic, marks) ==
  {i \in DOMAIN Lines(markdown.value) :
     Lines(markdown.value)[i] = marks \o <<" ">> \o PrintedTitle(topic)}

\* C20: a topic at rendering depth 2 is the line "## " + title, always
\* followed by a blank line; a topic at rendering depth 3 is the line
\* "### " + title, followed by a blank line exactly when it has no children.
C20_BlankLinesAfterHeadings ==
  Rendered =>
    /\ \A topic \in TopicsAt(1) :
         /\ HeadingLinesOf(topic, <<"#", "#">>) # {}
         /\ \A i \in HeadingLinesOf(topic, <<"#", "#">>) : BlankAfter(i)
    /\ \A topic \in TopicsAt(2) :
         /\ HeadingLinesOf(topic, <<"#", "#", "#">>) # {}
         /\ \A i \in HeadingLinesOf(topic, <<"#", "#", "#">>) :
              \E same \in TopicsAt(2) :
                /\ PrintedTitle(same) = PrintedTitle(topic)
                /\ BlankAfter(i) <=> (same.children = <<>>)

\* a block of auxiliary content: its lines and one blank line, or nothing
Block(content) == IF content = <<>> THEN <<>> ELSE content \o << <<>> >>

\* all but the last line
Front(lines) == SubSeq(lines, 1, Len(lines) - 1)

\* the auxiliary blocks of a topic, in the order notes, labels, links,
\* attachments, each present only when it renders something
AuxiliaryBlocks(topic) ==
  Block(IF Truthy(topic.notes)
        THEN Lines(<<">", " ">> \o notesToBlockquote(topic.notes.v)) ELSE <<>>)
  \o Block(IF topic.labels # <<>>
           THEN << <<"*", "*", "T", "a", "g", "s", ":", "*", "*", " ">>
                     \o Join(Backticked(topic.labels), <<" ">>) >>
           ELSE <<>>)
  \o Block(IF topic.links # <<>> THEN Front(LinkLines(topic.links)) ELSE <<>>)
  \o Block(IF topic.attachments # <<>> THEN Front(AttachmentLines(topic.attachments))
           ELSE <<>>)

\* a line that opens a topic: a heading or a bullet
IsTopicLine(line) == StartsWith(line, <<"#">>) \/ StartsWith(Trim(line), <<"-", " ">>)

\* C21: after the line of every topic come its auxiliary blocks in the order
\* notes, labels, links, attachments; a block is its content and one blank
\* line when it renders an item, and no line at all when it renders none.
C21_AuxiliaryBlocks ==
  Rendered /\ pc = "rendered" =>
    \A path \in Paths(tree.value) \ {<<>>} :
      LET topic == TopicAt(tree.value, path)
          own == convertTopic(topic, Len(path) + 1, options)[1]
          blocks == AuxiliaryBlocks(topic)
          aux == IF blocks = <<>> THEN <<>> ELSE Lines(Join(blocks, <<"\n">>))
          lines == Lines(markdown.value)
      IN \E i \in DOMAIN lines :
           /\ lines[i] = own
           /\ i + Len(aux) <= Len(lines)
           /\ SubSeq(lines, i + 1, i + Len(aux)) = aux
           /\ i + Len(aux) < Len(lines) => IsTopicLine(lines[i + Len(aux) + 1])

(***************************************************************************)
(* Properties of sanitizeTitle                                              *)
(***************************************************************************)
\* the words of a text: its longest runs of characters that are not white
\* space, in order
RECURSIVE Words(_)
Words(s) ==
  IF s = <<>> THEN <<>>
  ELSE IF IsSpace(s[1]) THEN Words(Tail(s))
  ELSE LET rest == Words(Tail(s))
       IN IF Len(s) > 1 /\ ~IsSpace(s[2])
          THEN <<<<s[1]>> \o rest[1]>> \o Tail(rest)
          ELSE <<<<s[1]>>>> \o rest

\* a word with its angle brackets written as entities, character by
\* character
RECURSIVE Escaped(_)
Escaped(w) ==
  IF w = <<>> THEN <<>>
  ELSE (IF w[1] = "<" THEN <<"&", "l", "t", ";">>
        ELSE IF w[1] = ">" THEN <<"&", "g", "t", ";">>
        ELSE <<w[1]>>) \o Escaped(Tail(w))

\* the words of a text, escaped, with one space between them
Sanitized(s) ==
  LET words == Words(s)
  IN Join([i \in 1..Len(words) |-> Escaped(words[i])], <<" ">>)

\* C22: sanitizeTitle gives the title with each run of white space replaced
\* by one space, no white space at the ends, "<" as "&lt;" and ">" as "&gt;",
\* all else unchanged and in order; "  A   <b>  " gives "A &lt;b&gt;"; and
\* applying it twice gives what applying it once gives.
C22_SanitizeTitle ==
  /\ title.pc \in {"once", "twice"} =>
       /\ title.once = Sanitized(title.raw)
       /\ title.raw = MessyTitle =>
            title.once = <<"A", " ", "&", "l", "t", ";", "b", "&", "g", "t", ";">>
  /\ title.pc = "twice" => title.twice = title.once

\* the title of the example, with white space at both ends and in runs, went
\* through sanitizeTitle twice
C22_Witness ==
  /\ title.pc = "twice"
  /\ title.raw = MessyTitle
  /\ title.once # title.raw

(***************************************************************************)
(* Properties of the StorageManager                                         *)
(***************************************************************************)
(***************************************************************************)
(* retry (src/lib/storage.ts): one call of retry(fn, maxRetries, delay).   *)
(* fn is any function: each call of it resolves with a value or rejects    *)
(* with an error.                                                          *)
(***************************************************************************)
MaxRetries == 3

\* the delays retry is given, in milliseconds
Delays == {1, 1000}

\* what the calls of fn resolve with, and what they reject with
FnValues == {"v1", "v2"}

FnErrors == {"e1", "e2"}

\* a backoff that does not grow
Backoff_flat(delay, i) == delay

\* delay * Math.pow(2, i)
Backoff(delay, i) == delay * 2^i

InitRetry ==
  /\ ConverterIdle
  /\ title = NoTitle /\ store = NoStore /\ registry = NoRegistry /\ ui = NoUi
  /\ \E maxRetries \in 0..MaxRetries, delay \in Delays :
       attempt = [pc |-> "loop", maxRetries |-> maxRetries, delay |-> delay, i |-> 0,
                  lastError |-> "undefined", outcomes |-> <<>>, sleeps |-> <<>>,
                  settled |-> "undefined"]

\* the loop condition holds: fn is called
CallFn ==
  /\ attempt.pc = "loop"
  /\ attempt.i < attempt.maxRetries
  /\ attempt' = [attempt EXCEPT !.pc = "awaiting"]
  /\ UNCHANGED <<converterVars, title, store, registry, ui>>

\* the call of fn resolves: retry returns its value
FnResolves ==
  /\ attempt.pc = "awaiting"
  /\ \E value \in FnValues :
       attempt' = [attempt EXCEPT !.pc = "resolved", !.settled = value,
                                  !.outcomes = Append(@, value)]
  /\ UNCHANGED <<converterVars, title, store, registry, ui>>

\* the call of fn rejects: the catch block, up to the sleep or the next round
FnRejects ==
  /\ attempt.pc = "awaiting"
  /\ \E error \in FnErrors :
       attempt' = IF attempt.i < attempt.maxRetries - 1
                  THEN [attempt EXCEPT !.pc = "sleeping", !.lastError = error,
                                       !.outcomes = Append(@, error),
                                       !.sleeps = Append(@, Backoff(attempt.delay, attempt.i))]
                  ELSE [attempt EXCEPT !.pc = "loop", !.lastError = error,
                                       !.outcomes = Append(@, error),
                                       !.i = attempt.i + 1]
  /\ UNCHANGED <<converterVars, title, store, registry, ui>>

\* the sleep is over: the next round of the loop
Wake ==
  /\ attempt.pc = "sleeping"
  /\ attempt' = [attempt EXCEPT !.pc = "loop", !.i = attempt.i + 1]
  /\ UNCHANGED <<converterVars, title, store, registry, ui>>

\* the loop is over: throw lastError
ThrowLastError ==
  /\ attempt.pc = "loop"
  /\ attempt.i >= attempt.maxRetries
  /\ attempt' = [attempt EXCEPT !.pc = "rejected", !.settled = attempt.lastError]
  /\ UNCHANGED <<converterVars, title, store, registry, ui>>

NextRetry == CallFn \/ FnResolves \/ FnRejects \/ Wake \/ ThrowLastError

SpecRetry == InitRetry /\ [][NextRetry]_vars

(***************************************************************************)
(* ShortcutRegistry (src/lib/shortcuts.ts).  shortcuts maps an id to its   *)
(* shortcut, keyMap maps a key combination to a set of ids; both are       *)
(* functions whose domain is the keys of the Map.                          *)
(***************************************************************************)
\* the ids shortcuts are registered under
ShortcutIds == {"file.save", "edit.find"}

\* the key strings shortcuts are registered with
ShortcutKeys ==
  {<<"C", "t", "r", "l", "+", "S">>,
   <<"c", "t", "r", "l", " ", "+", " ", "s">>,
   <<"C", "m", "d", "+", "K">>}

\* the shortcuts given to register; the condition is absent, or a function
\* that returns true or one that returns false
Shortcuts ==
  [id : ShortcutIds, key : ShortcutKeys, condition : {"none", "true", "false"},
   category : {"edit", "file"}]

\* the keyboard events: Ctrl+S, Cmd+K and Escape
KeyEvents ==
  {[metaKey |-> FALSE, ctrlKey |-> TRUE, altKey |-> FALSE, shiftKey |-> FALSE,
    key |-> <<"s">>, code |-> <<"K", "e", "y", "S">>],
   [metaKey |-> TRUE, ctrlKey |-> FALSE, altKey |-> FALSE, shiftKey |-> FALSE,
    key |-> <<"k">>, code |-> <<"K", "e", "y", "K">>],
   [metaKey |-> FALSE, ctrlKey |-> FALSE, altKey |-> FALSE, shiftKey |-> FALSE,
    key |-> <<"E", "s", "c", "a", "p", "e">>, code |-> <<"E", "s", "c", "a", "p", "e">>]}

\* the elements an event is aimed at
Targets ==
  {[tagName |-> "DIV", contenteditable |-> FALSE],
   [tagName |-> "INPUT", contenteditable |-> FALSE]}

\* toLowerCase, for the letters of the keys
toLowerCase(s) ==
  [i \in DOMAIN s |->
     CASE s[i] = "C" -> "c" [] s[i] = "E" -> "e" [] s[i] = "K" -> "k"
       [] s[i] = "M" -> "m" [] s[i] = "S" -> "s" [] OTHER -> s[i]]

\* s.replace(pattern, by) with a string pattern: the first occurrence only
ReplaceFirst(s, pattern, by) ==
  LET found == {i \in 1..(Len(s) - Len(pattern) + 1) :
                  SubSeq(s, i, i + Len(pattern) - 1) = pattern}
  IN IF found = {} THEN s
     ELSE LET at == CHOOSE i \in found : \A j \in found : i <= j
          IN SubSeq(s, 1, at - 1) \o by \o SubSeq(s, at + Len(pattern), Len(s))

\* a normalisation that leaves the key as it is written
normalizeKey_raw(key) == key

normalizeKey(key) ==
  ReplaceFirst(
    ReplaceFirst(
      ReplaceFirst(SelectSeq(toLowerCase(key), LAMBDA c : ~IsSpace(c)),
                   <<"c", "m", "d">>, <<"m", "e", "t", "a">>),
      <<"c", "t", "r", "l">>, <<"c", "o", "n", "t", "r", "o", "l">>),
    <<"c", "o", "m", "m", "a", "n", "d">>, <<"m", "e", "t", "a">>)

eventToKeyCombo(event) ==
  Join((IF event.metaKey THEN << <<"m", "e", "t", "a">> >> ELSE <<>>)
         \o (IF event.ctrlKey THEN << <<"c", "o", "n", "t", "r", "o", "l">> >> ELSE <<>>)
         \o (IF event.altKey THEN << <<"a", "l", "t">> >> ELSE <<>>)
         \o (IF event.shiftKey THEN << <<"s", "h", "i", "f", "t">> >> ELSE <<>>)
         \o (IF Len(event.key) = 1
             THEN <<toLowerCase(event.key)>> ELSE <<toLowerCase(event.code)>>),
       <<"+">>)

\* target.tagName === 'INPUT' || ... || contenteditable
isInputField(target) ==
  IF target.tagName \in {"INPUT", "TEXTAREA"} THEN TRUE ELSE target.contenteditable

\* keyMap after the id is added under a key combination
KeyMapAdd(keyMap, keyCombo, id) ==
  [k \in DOMAIN keyMap \cup {keyCombo} |->
     IF k = keyCombo
     THEN (IF k \in DOMAIN keyMap THEN keyMap[k] ELSE {}) \cup {id}
     ELSE keyMap[k]]

\* keyMap after the id is deleted under a key combination; an empty set is
\* deleted with its key
KeyMapDelete(keyMap, keyCombo, id) ==
  IF keyCombo \notin DOMAIN keyMap THEN keyMap
  ELSE [k \in IF keyMap[keyCombo] \ {id} = {} THEN DOMAIN keyMap \ {keyCombo}
              ELSE DOMAIN keyMap |->
          IF k = keyCombo THEN keyMap[k] \ {id} ELSE keyMap[k]]

\* a function without the key
Without(map, key) == [k \in DOMAIN map \ {key} |-> map[k]]

\* the ids whose handlers handleEvent invokes
Invoked(reg, event, target) ==
  IF ~reg.isEnabled THEN {}
  ELSE IF eventToKeyCombo(event) \notin DOMAIN reg.keyMap THEN {}
  ELSE {id \in reg.keyMap[eventToKeyCombo(event)] :
          IF id \notin DOMAIN reg.shortcuts THEN FALSE
          ELSE IF reg.shortcuts[id].condition = "false" THEN FALSE
          ELSE IF isInputField(target) THEN reg.shortcuts[id].category = "edit"
          ELSE TRUE}

InitRegistry ==
  /\ ConverterIdle
  /\ title = NoTitle /\ store = NoStore /\ attempt = NoAttempt /\ ui = NoUi
  /\ registry = [pc |-> "ready", shortcuts |-> <<>>, keyMap |-> <<>>, isEnabled |-> TRUE,
                 last |-> [name |-> "none"]]

Register ==
  /\ registry.pc = "ready"
  /\ \E shortcut \in Shortcuts :
       registry' = [registry EXCEPT
                      !.shortcuts = [id \in DOMAIN registry.shortcuts \cup {shortcut.id} |->
                                       IF id = shortcut.id THEN shortcut
                                       ELSE registry.shortcuts[id]],
                      !.keyMap = KeyMapAdd(@, normalizeKey(shortcut.key), shortcut.id),
                      !.last = [name |-> "register"]]
  /\ UNCHANGED <<converterVars, title, store, attempt, ui>>

Unregister ==
  /\ registry.pc = "ready"
  /\ \E id \in ShortcutIds :
       registry' = [registry EXCEPT
                      !.shortcuts = Without(@, id),
                      !.keyMap = IF id \in DOMAIN registry.shortcuts
                                 THEN KeyMapDelete(@, normalizeKey(registry.shortcuts[id].key), id)
                                 ELSE @,
                      !.last = [name |-> "unregister"]]
  /\ UNCHANGED <<converterVars, title, store, attempt, ui>>

ClearShortcuts ==
  /\ registry.pc = "ready"
  /\ registry' = [registry EXCEPT !.shortcuts = <<>>, !.keyMap = <<>>,
                                  !.last = [name |-> "clear"]]
  /\ UNCHANGED <<converterVars, title, store, attempt, ui>>

Enable ==
  /\ registry.pc = "ready"
  /\ registry' = [registry EXCEPT !.isEnabled = TRUE, !.last = [name |-> "enable"]]
  /\ UNCHANGED <<converterVars, title, store, attempt, ui>>

Disable ==
  /\ registry.pc = "ready"
  /\ registry' = [registry EXCEPT !.isEnabled = FALSE, !.last = [name |-> "disable"]]
  /\ UNCHANGED <<converterVars, title, store, attempt, ui>>

Toggle ==
  /\ registry.pc = "ready"
  /\ registry' = [registry EXCEPT !.isEnabled = ~registry.isEnabled,
                                  !.last = [name |-> "toggle"]]
  /\ UNCHANGED <<converterVars, title, store, attempt, ui>>

HandleEvent ==
  /\ registry.pc = "ready"
  /\ \E event \in KeyEvents, target \in Targets :
       registry' = [registry EXCEPT
                      !.last = [name |-> "handleEvent", event |-> event, target |-> target,
                                invoked |-> Invoked(registry, event, target),
                                returned |-> Invoked(registry, event, target) # {}]]
  /\ UNCHANGED <<converterVars, title, store, attempt, ui>>

NextRegistry ==
  Register \/ Unregister \/ ClearShortcuts \/ Enable \/ Disable \/ Toggle \/ HandleEvent

SpecRegistry == InitRegistry /\ [][NextRegistry]_vars

(***************************************************************************)
(* The Converter component (components/converter/Converter.svelte).  Its   *)
(* state is selectedFile, isConverting, conversionProgress, result and     *)
(* errorMessage; pending holds the calls of performConversion that wait at *)
(* one of its three awaits.  The drop zone is rendered while no file is    *)
(* selected and the clear button while one is.                             *)
(***************************************************************************)
MaxConversions == 3

Null == [t |-> "null"]

\* a File object, told by its name
File(name) == [t |-> "file", name |-> name]

\* the file lists the drop zone hands over
DroppedFiles ==
  {<<>>,
   << <<"a", ".", "x", "m", "i", "n", "d">> >>,
   << <<"b", ".", "x", "m", "i", "n", "d">> >>,
   << <<"n", ".", "t", "x", "t">> >>}

\* name.endsWith(suffix)
EndsWith(name, suffix) ==
  IF Len(name) < Len(suffix) THEN FALSE
  ELSE SubSeq(name, Len(name) - Len(suffix) + 1, Len(name)) = suffix

MsgSelectXmind == "Please select a valid XMind file (.xmind)"

MsgConvertFile == "Failed to convert file"

MsgConvertXmind == "Failed to convert XMind file"

InitConverterUi ==
  /\ ConverterIdle
  /\ title = NoTitle /\ store = NoStore /\ registry = NoRegistry /\ attempt = NoAttempt
  /\ ui = [pc |-> "ready", selectedFile |-> Null, isConverting |-> FALSE,
           conversionProgress |-> 0, result |-> Null, errorMessage |-> Null,
           pending |-> {}, started |-> 0]

\* handleFileSelect with performConversion up to its first await
HandleFileSelect ==
  /\ ui.pc = "ready"
  /\ ui.selectedFile.t = "null"
  /\ ui.started < MaxConversions
  /\ \E files \in DroppedFiles :
       ui' = IF files = <<>> THEN ui
             ELSE IF ~EndsWith(files[1], <<".", "x", "m", "i", "n", "d">>)
             THEN [ui EXCEPT !.errorMessage = MsgSelectXmind]
             ELSE [ui EXCEPT !.selectedFile = File(files[1]), !.errorMessage = Null,
                             !.isConverting = TRUE, !.conversionProgress = 10,
                             !.result = Null, !.started = ui.started + 1,
                             !.pending = @ \cup {[call |-> ui.started + 1, file |-> File(files[1]),
                                                  at |-> "arrayBuffer",
                                                  conversionResult |-> Null]}]
  /\ UNCHANGED <<converterVars, title, store, registry, attempt>>

\* file.arrayBuffer() resolves: on to the call of the converter
ArrayBufferResolves ==
  /\ ui.pc = "ready"
  /\ \E call \in ui.pending :
       /\ call.at = "arrayBuffer"
       /\ ui' = [ui EXCEPT !.conversionProgress = 30,
                           !.pending = (@ \ {call}) \cup {[call EXCEPT !.at = "convert"]}]
  /\ UNCHANGED <<converterVars, title, store, registry, attempt>>

\* file.arrayBuffer() or the converter rejects: catch and finally
ConversionThrows ==
  /\ ui.pc = "ready"
  /\ \E call \in ui.pending :
       /\ call.at \in {"arrayBuffer", "convert"}
       /\ ui' = [ui EXCEPT !.errorMessage = MsgConvertFile, !.isConverting = FALSE,
                           !.pending = @ \ {call}]
  /\ UNCHANGED <<converterVars, title, store, registry, attempt>>

\* convertXmindToMarkdown resolves: on to the timeout of 200 ms
ConvertResolves ==
  /\ ui.pc = "ready"
  /\ \E call \in ui.pending, success \in BOOLEAN :
       /\ call.at = "convert"
       /\ ui' = [ui EXCEPT !.conversionProgress = 90,
                           !.pending = (@ \ {call})
                              \cup {[call EXCEPT !.at = "timeout",
                                                 !.conversionResult =
                                                    [t |-> "result", file |-> call.file,
                                                     success |-> success]]}]
  /\ UNCHANGED <<converterVars, title, store, registry, attempt>>

\* the timeout fires: the result is set, then finally
TimeoutFires ==
  /\ ui.pc = "ready"
  /\ \E call \in ui.pending :
       /\ call.at = "timeout"
       /\ ui' = [ui EXCEPT !.conversionProgress = 100,
                           !.result = call.conversionResult,
                           !.errorMessage = IF call.conversionResult.success THEN @
                                            ELSE MsgConvertXmind,
                           !.isConverting = FALSE,
                           !.pending = @ \ {call}]
  /\ UNCHANGED <<converterVars, title, store, registry, attempt>>

HandleClearFile ==
  /\ ui.pc = "ready"
  /\ ui.selectedFile.t # "null"
  /\ ui' = [ui EXCEPT !.selectedFile = Null, !.result = Null, !.errorMessage = Null,
                      !.conversionProgress = 0]
  /\ UNCHANGED <<converterVars, title, store, registry, attempt>>

NextConverterUi ==
  \/ HandleFileSelect
  \/ ArrayBufferResolves
  \/ ConversionThrows
  \/ ConvertResolves
  \/ TimeoutFires
  \/ HandleClearFile

SpecConverterUi == InitConverterUi /\ [][NextConverterUi]_vars

\* the store is in use and a call has been made
StoreCalled == store.pc = "ready" /\ store.last.name # "none"


\* the items of a list
Items(list) == {list[i] : i \in DOMAIN list}

\* the last call was an add that found MaxItems unexpired items
AddOverflowed ==
  /\ StoreCalled
  /\ store.last.name = "add"
  /\ Len(Unexpired(store.last.before, store.last.now)) + 1 > MaxItems

\* what add hands to _save: the new item, then the unexpired items from the
\* most recently accessed on, cut to MaxItems
Wanted ==
  Slice(<<store.last.ret>>
          \o SortByLastAccessed(Unexpired(store.last.before, store.last.now)),
        MaxItems)

\* no item that add dropped was accessed more recently than one it kept
DroppedLeastRecent ==
  \A dropped \in Items(store.last.before) \ Items(store.data) :
    \A kept \in Items(store.last.before) \cap Items(store.data) :
      dropped.lastAccessed <= kept.lastAccessed

\* C23 as stated: storage never holds more than maxItems items, and an add
\* that overflows the limit drops the least recently accessed items and
\* keeps the new item.
C23_NewItemKept ==
  StoreCalled =>
    /\ Len(store.data) <= MaxItems
    /\ AddOverflowed => DroppedLeastRecent /\ store.last.ret \in Items(store.data)

\* C23: storage never holds more than maxItems items; an add that overflows
\* the limit drops the least recently accessed items, and it keeps the new
\* item when the write fits the quota; when it does not fit, the first half
\* of the list is stored if that fits, and nothing is left otherwise.
C23_NewItemKeptWithinQuota ==
  StoreCalled =>
    /\ Len(store.data) <= MaxItems
    /\ AddOverflowed =>
         /\ DroppedLeastRecent
         /\ store.data = IF Fits(Wanted, store.cap) THEN Wanted
                         ELSE IF Fits(Slice(Wanted, Len(Wanted) \div 2), store.cap)
                              THEN Slice(Wanted, Len(Wanted) \div 2)
                              ELSE <<>>
         /\ Fits(Wanted, store.cap) => store.last.ret \in Items(store.data)

\* an add overflowed, dropped an item and kept the new one
C23_Witness ==
  /\ AddOverflowed
  /\ store.data = Wanted
  /\ Items(store.last.before) \ Items(store.data) # {}

\* an add overflowed and the write fell back to the first half of the list
AddStoredHalf ==
  /\ AddOverflowed
  /\ ~Fits(Wanted, store.cap)
  /\ store.data # <<>>


\* the last call was an import of an array
Imported == StoreCalled /\ store.last.name = "import" /\ store.last.arg.json.array

\* the items an import chooses from: the imported ones and, with merge, the
\* stored ones that are not expired
Candidates ==
  Items(store.last.arg.json.items)
    \cup IF store.last.arg.merge
         THEN Items(Unexpired(store.last.before, store.last.now)) ELSE {}

\* C24: import leaves storage with pairwise distinct ids, and of the
\* imported and (with merge) existing items that share an id it keeps the
\* one with the latest lastAccessed.
C24_ImportKeepsNewest ==
  Imported =>
    /\ \A i, j \in DOMAIN store.data : store.data[i].id = store.data[j].id => i = j
    /\ \A kept \in Items(store.data) :
         \A other \in Candidates :
           other.id = kept.id => other.lastAccessed <= kept.lastAccessed

\* the ids are distinct after an import that was given an id twice
ImportLeavesDistinctIds ==
  Imported =>
    \A i, j \in DOMAIN store.data : store.data[i].id = store.data[j].id => i = j


\* the last call was getAll
GotAll == StoreCalled /\ store.last.name = "getAll"

\* a list runs from the most to the least recently accessed item
MostRecentFirst(list) ==
  \A i, j \in DOMAIN list : i < j => list[i].lastAccessed >= list[j].lastAccessed

GetAllSorted == GotAll /\ store.last.ret # store.data /\ Len(store.data) = Len(store.last.before)


(***************************************************************************)
(* Properties of retry                                                      *)
(***************************************************************************)
\* retry has been called
Retrying == attempt.pc # "none"

\* the calls of fn that failed so far
Failed == SelectSeq(attempt.outcomes, LAMBDA outcome : outcome \in FnErrors)

\* C27: retry calls fn at most maxRetries times, returns the value of the
\* first call that succeeds, rejects with the error of the last call when
\* all maxRetries calls fail, waits delay * 2^i after failed attempt i when
\* another attempt follows, and does not wait after the final attempt.
C27_RetryBackoff ==
  Retrying =>
    /\ Len(attempt.outcomes) <= attempt.maxRetries
    /\ \A k \in DOMAIN attempt.outcomes :
         attempt.outcomes[k] \in FnValues => k = Len(attempt.outcomes)
    /\ attempt.pc = "resolved" <=>
         attempt.outcomes # <<>> /\ attempt.outcomes[Len(attempt.outcomes)] \in FnValues
    /\ attempt.pc = "resolved" => attempt.settled = attempt.outcomes[Len(attempt.outcomes)]
    /\ attempt.pc = "rejected" =>
         /\ Len(Failed) = attempt.maxRetries
         /\ attempt.maxRetries > 0 => attempt.settled = attempt.outcomes[attempt.maxRetries]
    /\ Len(attempt.sleeps) = Len(SelectSeq([k \in DOMAIN Failed |-> k],
                                           LAMBDA k : k < attempt.maxRetries))
    /\ \A k \in DOMAIN attempt.sleeps : attempt.sleeps[k] = attempt.delay * 2^(k - 1)

\* retry rejected after three failed calls and two waits
C27_Witness ==
  /\ Retrying
  /\ attempt.pc = "rejected"
  /\ Len(attempt.outcomes) = 3
  /\ Len(attempt.sleeps) = 2


(***************************************************************************)
(* Properties of the ShortcutRegistry                                       *)
(***************************************************************************)
\* the last call was handleEvent
Handled == registry.pc = "ready" /\ registry.last.name = "handleEvent"


\* the id is registered
Registered(id) == id \in DOMAIN registry.shortcuts

\* the key combination an id is registered with
BoundKey(id) == normalizeKey(registry.shortcuts[id].key)

\* C26: handleEvent invokes a shortcut's handler only if the registry is
\* enabled, the event's key combination is the shortcut's normalized key,
\* its condition, if any, returns true, and the target is no input field
\* unless the category is 'edit'; it returns true exactly when it invoked a
\* handler.
C26_HandlerInvokedOnlyIf ==
  Handled =>
    /\ \A id \in registry.last.invoked :
         /\ registry.isEnabled
         /\ Registered(id)
         /\ BoundKey(id) = eventToKeyCombo(registry.last.event)
         /\ registry.shortcuts[id].condition # "false"
         /\ isInputField(registry.last.target) => registry.shortcuts[id].category = "edit"
    /\ registry.last.returned <=> registry.last.invoked # {}

\* the same, for every condition but the one on the key combination
HandlerInvokedOnlyIfAllowed ==
  Handled =>
    /\ \A id \in registry.last.invoked :
         /\ registry.isEnabled
         /\ Registered(id)
         /\ registry.shortcuts[id].condition # "false"
         /\ isInputField(registry.last.target) => registry.shortcuts[id].category = "edit"
    /\ registry.last.returned <=> registry.last.invoked # {}

\* C28: keyMap maps a key combination to an id exactly when the id is
\* registered and its normalized key is that combination.
C28_KeyMapMatchesShortcuts ==
  registry.pc = "ready" =>
    \A id \in ShortcutIds :
      \A keyCombo \in DOMAIN registry.keyMap \cup {normalizeKey(key) : key \in ShortcutKeys} :
        (IF keyCombo \in DOMAIN registry.keyMap THEN id \in registry.keyMap[keyCombo] ELSE FALSE)
          <=> (IF Registered(id) THEN BoundKey(id) = keyCombo ELSE FALSE)

\* every registered id is in keyMap under its normalized key
RegisteredIdsAreBound ==
  registry.pc = "ready" =>
    \A id \in DOMAIN registry.shortcuts :
      IF BoundKey(id) \in DOMAIN registry.keyMap
      THEN id \in registry.keyMap[BoundKey(id)] ELSE FALSE


(***************************************************************************)
(* Properties of the Converter component                                    *)
(***************************************************************************)
\* the component is mounted
Mounted == ui.pc = "ready"

\* a conversion of the selected file is in flight
SelectedInFlight ==
  IF ui.selectedFile.t = "null" THEN FALSE
  ELSE \E call \in ui.pending : call.file.name = ui.selectedFile.name

\* the result that is shown is the one of the selected file
ResultOfSelected ==
  IF ui.selectedFile.t = "null" THEN FALSE
  ELSE ui.result.file.name = ui.selectedFile.name

\* C29: a result is shown only for the file that is selected, and
\* isConverting is true exactly while a conversion of the selected file is
\* in flight.
C29_ResultOfSelectedFile ==
  Mounted =>
    /\ ui.result.t # "null" => ResultOfSelected
    /\ ui.isConverting <=> SelectedInFlight

\* the same for the first file, as long as it is not cleared
ResultOfSelectedFileUnlessCleared ==
  Mounted /\ ui.started <= 1 /\ ui.selectedFile.t # "null" =>
    /\ ui.result.t # "null" => ResultOfSelected
    /\ ui.isConverting <=> SelectedInFlight


\* a result is shown only for the file that is selected
ResultOnlyOfSelectedFile == Mounted /\ ui.result.t # "null" => ResultOfSelected


(***************************************************************************)
(* Properties of the maxDepth option                                        *)
(***************************************************************************)
\* no topic of the tree lies deeper than level n
NoDeeperThan(n) ==
  \A path \in Paths(tree.value) : TopicAt(tree.value, path).level <= n

\* the tree is the one that is built when maxDepth is beyond every level
NotTruncated ==
  tree = extractTopicTree(ContentOf(src, shape),
                          [options EXCEPT !.maxDepth = JNum(MaxLevel + MaxXmlLevel + 1)], gen)

\* C30: with maxDepth = N >= 0 no topic of the tree that extractTopicTree
\* returns has a level greater than N, and without maxDepth the tree is
\* not truncated.
C30_MaxDepthTruncates ==
  Built /\ tree.ok =>
    /\ options.maxDepth.t = "number" => NoDeeperThan(options.maxDepth.v)
    /\ options.maxDepth.t = "undefined" => NotTruncated

\* the same for maxDepth = N >= 1
MaxDepthTruncatesFromOne ==
  Built /\ tree.ok =>
    /\ options.maxDepth.t = "number" /\ options.maxDepth.v >= 1
         => NoDeeperThan(options.maxDepth.v)
    /\ options.maxDepth.t = "undefined" => NotTruncated

\* a tree was cut at maxDepth
TruncatedAtMaxDepth ==
  /\ Built /\ tree.ok
  /\ options.maxDepth.t = "number" /\ options.maxDepth.v >= 1
  /\ ~NotTruncated

====
